---- MODULE Spec2Model ----
(***************************************************************************)
(* A model of the BagelPay Go SDK transport client: client construction    *)
(* (NewClient and the convenience constructors), request building          *)
(* (makeRequest), response classification (handleResponse), the error      *)
(* taxonomy with its type-test predicates, the twelve API operations, the   *)
(* ToJSON/FromJSON helpers and the webhook signature verifier of the        *)
(* integration example.                                                    *)
(*                                                                         *)
(* Text that the code inspects character by character (URLs, query keys    *)
(* and values) is a sequence of atoms: an atom is one reserved character   *)
(* ("/", "?", "&", "=", " ", ...) or a run of characters none of which is  *)
(* reserved.  Text that the code only copies or formats (API keys,         *)
(* messages, raw bodies) is a TLA+ string.                                 *)
(***************************************************************************)
EXTENDS Integers, Sequences, FiniteSets, TLC

VARIABLES
    config,   \* the ClientConfig literal the caller wrote (and the constructor used)
    client,   \* the BagelPayClient built from it, or NoClient
    pc,       \* position of the current call: "idle", "inflight", "done"
    call,     \* the operation being executed and its arguments
    req,      \* the HTTP request handed to httpClient.Do, or NoRequest
    resp,     \* the HTTP response httpClient.Do returned, or NoResponse
    result,   \* what the call returned: [model, err]
    issued,   \* how many times the current call has invoked httpClient.Do
    ctxDone,  \* the caller's cancelable context is canceled or past its deadline
    closed,   \* how many times Body.Close has run on the current call's response
    calls,    \* concurrent callers of one client: caller -> state of its call
    codec,    \* the last ToJSON / FromJSON round trip, or NoCodec
    hook,     \* the last verifyWebhookSignature call, or NoHook
    served    \* the last request webhookHandler served and its answer, or NoServed

\* what the single-caller specification leaves alone
aux == <<calls, codec, hook, served>>

vars == <<config, client, pc, call, req, resp, result, issued, ctxDone, closed, calls, codec, hook, served>>

Nil == [t |-> "nil"]
NoClient == [t |-> "noclient"]
NoRequest == [t |-> "norequest"]
NoResponse == [t |-> "noresponse"]
NoCall == [t |-> "nocall"]
NoConfig == [t |-> "noconfig"]
NoCodec == [t |-> "nocodec"]
NoHook == [t |-> "nohook"]
NoServed == [t |-> "noserved"]

\* how many goroutines call the one client at a time
MaxCallers == 2
Callers == 1..MaxCallers

\* a caller that is not in a call
NoCaller == [pc |-> "idle", call |-> NoCall, req |-> NoRequest, resp |-> NoResponse,
             result |-> Nil]
NoCalls == [c \in Callers |-> NoCaller]

----------------------------------------------------------------------------
(* Text helpers                                                            *)

HasSuffix(s, suffix) ==
    /\ Len(s) >= Len(suffix)
    /\ SubSeq(s, Len(s) - Len(suffix) + 1, Len(s)) = suffix

\* a TrimSuffix that leaves its argument as it is
TrimSuffixNone(s, suffix) == s

\* strings.TrimSuffix: removes ONE occurrence of suffix from the end, if present
TrimSuffix(s, suffix) ==
    IF HasSuffix(s, suffix) THEN SubSeq(s, 1, Len(s) - Len(suffix)) ELSE s

Digit(d) ==
    CASE d = 0 -> "0" [] d = 1 -> "1" [] d = 2 -> "2" [] d = 3 -> "3"
      [] d = 4 -> "4" [] d = 5 -> "5" [] d = 6 -> "6" [] d = 7 -> "7"
      [] d = 8 -> "8" [] d = 9 -> "9"

RECURSIVE UDecimal(_)
UDecimal(n) == IF n < 10 THEN Digit(n) ELSE UDecimal(n \div 10) \o Digit(n % 10)

\* strconv.Itoa and the %d verb of fmt.Sprintf
Itoa(n) == IF n < 0 THEN "-" \o UDecimal(0 - n) ELSE UDecimal(n)

----------------------------------------------------------------------------
(* Package constants                                                       *)

DefaultTestBaseURL == <<"https:", "/", "/", "test.bagelpay.io">>
DefaultLiveBaseURL == <<"https:", "/", "/", "live.bagelpay.io">>
\* the version of the SDK
Version == "1.0.3"

DefaultUserAgent == "BagelPay-Go-SDK/1.0.0"

----------------------------------------------------------------------------
(* net/url: parsing, query values, escaping                                *)

CTL == "<0x7f>"      \* an ASCII control byte; url.Parse rejects any URL holding one

Range(s) == {s[i] : i \in 1..Len(s)}

\* index of the first occurrence of atom a in s, 0 if none
RECURSIVE IndexFrom(_, _, _)
IndexFrom(s, a, i) ==
    IF i > Len(s) THEN 0
    ELSE IF s[i] = a THEN i ELSE IndexFrom(s, a, i + 1)

Index(s, a) == IndexFrom(s, a, 1)

\* url.Parse, as far as the client depends on it: a control byte is an
\* error; the text after the first "#" is the fragment; of the rest, the
\* text after the first "?" is RawQuery, and a bare trailing "?" sets
\* ForceQuery.
urlParse(rawURL) ==
    IF CTL \in Range(rawURL)
    THEN [err |-> "net/url: invalid control character in URL"]
    ELSE LET h    == Index(rawURL, "#")
             rest == IF h = 0 THEN rawURL ELSE SubSeq(rawURL, 1, h - 1)
             frag == IF h = 0 THEN <<>> ELSE SubSeq(rawURL, h + 1, Len(rawURL))
             i    == Index(rest, "?")
         IN IF i = 0
            THEN [err |-> "", Path |-> rest, RawQuery |-> <<>>, ForceQuery |-> FALSE,
                  Fragment |-> frag]
            ELSE [err |-> "",
                  Path |-> SubSeq(rest, 1, i - 1),
                  RawQuery |-> SubSeq(rest, i + 1, Len(rest)),
                  ForceQuery |-> (i = Len(rest)),
                  Fragment |-> frag]

\* URL.String: the path, "?" and the query when there is one, "#" and the
\* fragment when there is one
URLString(u) ==
    u.Path \o (IF u.ForceQuery \/ u.RawQuery # <<>> THEN <<"?">> \o u.RawQuery ELSE <<>>)
           \o (IF u.Fragment # <<>> THEN <<"#">> \o u.Fragment ELSE <<>>)

QueryEscapeAtom(a) ==
    CASE a = " " -> "+"
      [] a = "+" -> "%2B"
      [] a = "&" -> "%26"
      [] a = "=" -> "%3D"
      [] a = "%" -> "%25"
      [] a = "/" -> "%2F"
      [] a = "?" -> "%3F"
      [] OTHER   -> a

QueryUnescapeAtom(a) ==
    CASE a = "+"   -> " "
      [] a = "%2B" -> "+"
      [] a = "%26" -> "&"
      [] a = "%3D" -> "="
      [] a = "%25" -> "%"
      [] a = "%2F" -> "/"
      [] a = "%3F" -> "?"
      [] OTHER     -> a

QueryEscape(s) == [i \in 1..Len(s) |-> QueryEscapeAtom(s[i])]
QueryUnescape(s) == [i \in 1..Len(s) |-> QueryUnescapeAtom(s[i])]

\* url.Values is map[string][]string: a function from the keys present to
\* their value lists.  Values.Add appends to the key's list.
ValuesAdd(q, key, value) ==
    [k \in DOMAIN q \cup {key} |->
        (IF k \in DOMAIN q THEN q[k] ELSE <<>>) \o (IF k = key THEN <<value>> ELSE <<>>)]

EmptyValues == [k \in {} |-> <<>>]

\* url.ParseQuery: pieces separated by "&", each split at its first "="
RECURSIVE ParseQueryInto(_, _)
ParseQueryInto(q, raw) ==
    IF raw = <<>> THEN q
    ELSE LET i     == Index(raw, "&")
             piece == IF i = 0 THEN raw ELSE SubSeq(raw, 1, i - 1)
             rest  == IF i = 0 THEN <<>> ELSE SubSeq(raw, i + 1, Len(raw))
             j     == Index(piece, "=")
             key   == IF j = 0 THEN piece ELSE SubSeq(piece, 1, j - 1)
             value == IF j = 0 THEN <<>> ELSE SubSeq(piece, j + 1, Len(piece))
         IN IF piece = <<>>
            THEN ParseQueryInto(q, rest)
            ELSE ParseQueryInto(ValuesAdd(q, QueryUnescape(key), QueryUnescape(value)), rest)

ParseQuery(raw) == ParseQueryInto(EmptyValues, raw)

\* (*URL).Query
URLQuery(u) == ParseQuery(u.RawQuery)

\* The query keys the model uses, in the byte order Values.Encode sorts them by
KeyOrder == << <<"a", "&", "b">>, <<"pageNum">>, <<"pageSize">> >>

RECURSIVE EncodeValuesOf(_, _, _)
EncodeValuesOf(key, vs, buf) ==
    IF vs = <<>> THEN buf
    ELSE EncodeValuesOf(key, Tail(vs),
            buf \o (IF buf = <<>> THEN <<>> ELSE <<"&">>)
                \o QueryEscape(key) \o <<"=">> \o QueryEscape(Head(vs)))

RECURSIVE EncodeKeys(_, _, _)
EncodeKeys(q, keys, buf) ==
    IF keys = <<>> THEN buf
    ELSE EncodeKeys(q, Tail(keys),
            IF Head(keys) \in DOMAIN q
            THEN EncodeValuesOf(Head(keys), q[Head(keys)], buf)
            ELSE buf)

\* Values.Encode: "k=v" pairs joined by "&", sorted by key, both sides escaped
ValuesEncode(q) == EncodeKeys(q, KeyOrder, <<>>)

----------------------------------------------------------------------------
(* Client construction                                                     *)

\* The ClientConfig value Go builds from a struct literal: a field the
\* caller did not write holds its zero value (false for the bool TestMode).
\* Timeout is a time.Duration, counted here in seconds; HTTPClient is nil or
\* points to an http.Client, of which the Timeout field is kept.
ClientConfig(lit) ==
    [APIKey     |-> lit.APIKey,
     TestMode   |-> (lit.TestMode = "true"),
     BaseURL    |-> lit.BaseURL,
     Timeout    |-> IF "Timeout" \in DOMAIN lit THEN lit.Timeout ELSE 0,
     HTTPClient |-> IF "HTTPClient" \in DOMAIN lit THEN lit.HTTPClient ELSE Nil]

\* the http.Client NewClient stores: the caller's own when one is supplied,
\* else a new one whose Timeout is config.Timeout, or 30 * time.Second for zero
HTTPClientOf(cfg) ==
    LET timeout == IF cfg.Timeout = 0 THEN 30 ELSE cfg.Timeout
    IN IF cfg.HTTPClient = Nil THEN [Timeout |-> timeout] ELSE cfg.HTTPClient

\* a NewClient that lets the mode flag win over the explicit base URL
NewClientModeFirst(cfg) ==
    LET baseURL == IF cfg.TestMode THEN DefaultTestBaseURL
                   ELSE IF cfg.BaseURL = <<>> THEN DefaultLiveBaseURL
                   ELSE cfg.BaseURL
    IN [baseURL    |-> TrimSuffix(baseURL, <<"/">>),
        apiKey     |-> cfg.APIKey,
        httpClient |-> HTTPClientOf(cfg)]

NewClient(cfg) ==
    LET baseURL == IF cfg.BaseURL = <<>>
                   THEN IF cfg.TestMode THEN DefaultTestBaseURL
                                        ELSE DefaultLiveBaseURL
                   ELSE cfg.BaseURL
    IN [baseURL    |-> TrimSuffix(baseURL, <<"/">>),
        apiKey     |-> cfg.APIKey,
        httpClient |-> HTTPClientOf(cfg)]

NewDefaultClient(apiKey) ==
    NewClient(ClientConfig([APIKey |-> apiKey, TestMode |-> "true", BaseURL |-> <<>>]))

NewTestClient(apiKey) ==
    NewClient(ClientConfig([APIKey |-> apiKey, TestMode |-> "true", BaseURL |-> <<>>]))

NewLiveClient(apiKey) ==
    NewClient(ClientConfig([APIKey |-> apiKey, TestMode |-> "false", BaseURL |-> <<>>]))

----------------------------------------------------------------------------
(* Error taxonomy.  An error value carries its dynamic Go type in `type`.   *)

\* a wrapper that loses the failure it wraps
NewBagelPayErrorNoCause(message, cause) ==
    [type |-> "*BagelPayError", Message |-> message, Cause |-> ""]

NewBagelPayError(message, cause) ==
    [type |-> "*BagelPayError", Message |-> message, Cause |-> cause]

\* the APIError payload struct {Code int; Message string; Details string}
APIError(code, message, details) ==
    [Code |-> code, Message |-> message, Details |-> details]

\* a *BagelPayAPIError, or a type embedding one, with its promoted fields
APIErrorValue(type, message, cause, statusCode, errorCode, apiError) ==
    [type       |-> type,
     Message    |-> message,
     Cause      |-> cause,
     StatusCode |-> statusCode,
     ErrorCode  |-> errorCode,
     APIError   |-> apiError]

NewBagelPayAPIError(statusCode, apiError, cause) ==
    LET message   == IF apiError # Nil THEN apiError.Message ELSE "API request failed"
        errorCode == IF apiError # Nil /\ apiError.Code # 0
                     THEN Itoa(apiError.Code) ELSE ""
    IN APIErrorValue("*BagelPayAPIError", message, cause, statusCode, errorCode, apiError)

NewBagelPayAuthenticationError(message, statusCode, errorCode, apiError, cause) ==
    APIErrorValue("*BagelPayAuthenticationError", message, cause,
                  IF statusCode = 0 THEN 401 ELSE statusCode, errorCode, apiError)

NewBagelPayAuthenticationErrorSimple(message, cause) ==
    NewBagelPayAuthenticationError(message, 401, "", Nil, cause)

NewBagelPayValidationError(message, statusCode, errorCode, apiError, cause) ==
    APIErrorValue("*BagelPayValidationError", message, cause,
                  IF statusCode = 0 THEN 400 ELSE statusCode, errorCode, apiError)

NewBagelPayValidationErrorSimple(message, cause) ==
    NewBagelPayValidationError(message, 400, "", Nil, cause)

NewBagelPayNotFoundError(message, statusCode, errorCode, apiError, cause) ==
    APIErrorValue("*BagelPayNotFoundError", message, cause,
                  IF statusCode = 0 THEN 404 ELSE statusCode, errorCode, apiError)

NewBagelPayNotFoundErrorSimple(message, cause) ==
    NewBagelPayNotFoundError(message, 404, "", Nil, cause)

NewBagelPayRateLimitError(message, statusCode, errorCode, apiError, cause) ==
    APIErrorValue("*BagelPayRateLimitError", message, cause,
                  IF statusCode = 0 THEN 429 ELSE statusCode, errorCode, apiError)

NewBagelPayRateLimitErrorSimple(message, cause) ==
    NewBagelPayRateLimitError(message, 429, "", Nil, cause)

NewBagelPayServerError(message, statusCode, errorCode, apiError, cause) ==
    APIErrorValue("*BagelPayServerError", message, cause,
                  IF statusCode = 0 THEN 500 ELSE statusCode, errorCode, apiError)

NewBagelPayServerErrorSimple(statusCode, message, cause) ==
    NewBagelPayServerError(message, statusCode, "", Nil, cause)

\* The predicates are Go type assertions on the concrete type of err
IsAuthenticationError(err) == err # Nil /\ err.type = "*BagelPayAuthenticationError"
IsValidationError(err)     == err # Nil /\ err.type = "*BagelPayValidationError"
IsNotFoundError(err)       == err # Nil /\ err.type = "*BagelPayNotFoundError"
IsRateLimitError(err)      == err # Nil /\ err.type = "*BagelPayRateLimitError"
IsServerError(err)         == err # Nil /\ err.type = "*BagelPayServerError"
IsAPIError(err)            == err # Nil /\ err.type = "*BagelPayAPIError"

----------------------------------------------------------------------------
(* encoding/json.  A JSON text is carried with its parse tree:             *)
(*   [t |-> "invalid"]            not a JSON text (syntax error)           *)
(*   [t |-> "null"]  [t |-> "num", v |-> n]  [t |-> "float", c |-> ..]     *)
(*   [t |-> "str", s |-> ..]  [t |-> "bool", b |-> ..]                     *)
(*   [t |-> "arr", a |-> <<..>>]  [t |-> "obj", f |-> [key |-> tree]]      *)
(* A Go target type is [k |-> "int" | "float64" | "string" | "bool"],      *)
(* [k |-> "struct", fields |-> [json key |-> type]] or                     *)
(* [k |-> "slice", elem |-> type].                                         *)

JNull == [t |-> "null"]
JNum(n) == [t |-> "num", v |-> n]
JStr(s) == [t |-> "str", s |-> s]
JObj(f) == [t |-> "obj", f |-> f]
JArr(a) == [t |-> "arr", a |-> a]
JInvalid == [t |-> "invalid"]
NoFields == [k \in {} |-> JNull]

TInt == [k |-> "int"]
TFloat == [k |-> "float64"]
TString == [k |-> "string"]
TBool == [k |-> "bool"]
TStruct(fields) == [k |-> "struct", fields |-> fields]
TSlice(elem) == [k |-> "slice", elem |-> elem]

\* Decoding one value into a target: null leaves the target untouched; a
\* value of the wrong JSON type is an UnmarshalTypeError; object keys the
\* struct does not declare are skipped.  val holds what was stored.
RECURSIVE Decode(_, _)
Decode(ty, v) ==
    IF v.t = "null" THEN [ok |-> TRUE, set |-> FALSE, val |-> JNull]
    ELSE IF ty.k = "struct"
    THEN IF v.t # "obj" THEN [ok |-> FALSE, set |-> FALSE, val |-> JNull]
         ELSE LET keys == DOMAIN v.f \cap DOMAIN ty.fields
                  sub  == [k \in keys |-> Decode(ty.fields[k], v.f[k])]
              IN [ok  |-> \A k \in keys : sub[k].ok,
                  set |-> TRUE,
                  val |-> JObj([k \in {x \in keys : sub[x].set} |-> sub[k].val])]
    ELSE IF ty.k = "slice"
    THEN IF v.t # "arr" THEN [ok |-> FALSE, set |-> FALSE, val |-> JNull]
         ELSE LET sub == [i \in 1..Len(v.a) |-> Decode(ty.elem, v.a[i])]
              IN [ok  |-> \A i \in 1..Len(v.a) : sub[i].ok,
                  set |-> TRUE,
                  val |-> JArr([i \in 1..Len(v.a) |-> sub[i].val])]
    ELSE LET fits == \/ ty.k = "int" /\ v.t = "num"
                     \/ ty.k = "float64" /\ v.t \in {"num", "float"}
                     \/ ty.k = "string" /\ v.t = "str"
                     \/ ty.k = "bool" /\ v.t = "bool"
                     \/ ty.k = "map" /\ v.t = "obj"
         IN [ok |-> fits, set |-> fits, val |-> IF fits THEN v ELSE JNull]

\* json.Unmarshal(body, &target): a syntax error or a type error is an error
Unmarshal(body, ty) ==
    IF body.json.t = "invalid"
    THEN [err |-> "json.SyntaxError", val |-> JNull]
    ELSE LET d == Decode(ty, body.json)
         IN IF d.ok THEN [err |-> "", val |-> d.val]
                    ELSE [err |-> "json.UnmarshalTypeError", val |-> d.val]

APIErrorType ==
    TStruct([k \in {"code", "message", "details"} |->
                IF k = "code" THEN TInt ELSE TString])

\* The APIError struct a decoded value leaves behind: fields that were not
\* stored keep their zero value
APIErrorOf(val) ==
    LET f == IF val.t = "obj" THEN val.f ELSE NoFields
    IN APIError(IF "code" \in DOMAIN f THEN f["code"].v ELSE 0,
                IF "message" \in DOMAIN f THEN f["message"].s ELSE "",
                IF "details" \in DOMAIN f THEN f["details"].s ELSE "")

----------------------------------------------------------------------------
(* Response models (the struct types handleResponse decodes into)          *)

Fields(strs, ints, floats, bools) ==
    [k \in strs \cup ints \cup floats \cup bools |->
        IF k \in strs THEN TString
        ELSE IF k \in ints THEN TInt
        ELSE IF k \in floats THEN TFloat ELSE TBool]

CheckoutResponseType ==
    TStruct(Fields({"object", "status", "mode", "payment_id", "product_id",
                    "request_id", "success_url", "checkout_url", "created_at",
                    "updated_at", "expires_on"}, {"units"}, {}, {})
            @@ ("metadata" :> [k |-> "map"]))

ProductType ==
    TStruct(Fields({"name", "description", "currency", "object", "mode",
                    "product_id", "store_id", "product_url", "billing_type",
                    "billing_period", "tax_category", "created_at", "updated_at",
                    "recurring_interval"},
                   {"trial_days"}, {"price"}, {"tax_inclusive", "is_archive"}))

CustomerRefType == TStruct(Fields({"id", "email"}, {}, {}, {}))

TransactionType ==
    TStruct(Fields({"object", "order_id", "transaction_id", "currency",
                    "tax_country", "type", "created_at", "updated_at", "remark",
                    "mode"}, {},
                   {"amount", "amount_paid", "discount_amount", "tax_amount",
                    "refunded_amount", "fees", "tax", "net"}, {})
            @@ ("customer" :> CustomerRefType))

SubscriptionType ==
    TStruct(Fields({"object", "status", "remark", "mode", "last4",
                    "subscription_id", "product_id", "store_id",
                    "billing_period_start", "billing_period_end", "cancel_at",
                    "trial_start", "trial_end", "created_at", "updated_at",
                    "product_name", "payment_method", "recurring_interval"},
                   {"units"}, {"amount", "next_billing_amount"}, {})
            @@ ("customer" :> CustomerRefType))

CustomerDataType ==
    TStruct(Fields({"name", "email", "remark", "store_id", "created_at",
                    "updated_at"}, {"id", "subscriptions", "payments"},
                   {"total_spend"}, {}))

\* struct { Data T `json:"data"` }
DataWrapper(T) == TStruct([k \in {"data"} |-> T])

\* {Total int; Items []T; Code int; Msg string}
ListResponse(T) ==
    TStruct([k \in {"total", "items", "code", "msg"} |->
                IF k = "items" THEN TSlice(T)
                ELSE IF k = "msg" THEN TString ELSE TInt])

----------------------------------------------------------------------------
(* makeRequest and handleResponse                                          *)

NoCause == ""
NoBody == [t |-> "nobody"]
NilParams == [nil |-> TRUE, m |-> EmptyValues]
Params(m) == [nil |-> FALSE, m |-> m]

Body(raw, json) == [raw |-> raw, json |-> json]

----------------------------------------------------------------------------
(* Go values and their JSON form.  A Go value is                           *)
(*   [v |-> "nil"]  a nil pointer, map, slice or interface                 *)
(*   [v |-> "string", s]  [v |-> "int", n]  [v |-> "bool", b]              *)
(*   [v |-> "float64", c]  a float64 of c hundredths;  [v |-> "NaN"]       *)
(*   [v |-> "func"]  a function value held in an interface                 *)
(*   [v |-> "ptr", to]  [v |-> "map", m]  [v |-> "slice", a]               *)
(*   [v |-> "struct", f]  the fields by JSON key                           *)
(* and a Go type names, for a struct, its fields in declaration order with *)
(* their JSON key and omitempty option.  Strings hold no character that    *)
(* JSON escapes.                                                           *)

VNil == [v |-> "nil"]
VStr(str) == [v |-> "string", s |-> str]
VInt(n) == [v |-> "int", n |-> n]
VBool(b) == [v |-> "bool", b |-> b]
VFloat(c) == [v |-> "float64", c |-> c]
VNaN == [v |-> "NaN"]
VFunc == [v |-> "func"]
VPtr(x) == [v |-> "ptr", to |-> x]
VMap(m) == [v |-> "map", m |-> m]
VSlice(a) == [v |-> "slice", a |-> a]
VStruct(f) == [v |-> "struct", f |-> f]
EmptyMap == [k \in {} |-> VNil]

GString == [k |-> "string"]
GInt == [k |-> "int"]
GFloat64 == [k |-> "float64"]
GBool == [k |-> "bool"]
GAny == [k |-> "any"]
GMap == [k |-> "map", elem |-> GAny]
GPtrTo(e) == [k |-> "ptr", elem |-> e]
GSliceOf(e) == [k |-> "slice", elem |-> e]
GStructOf(fields) == [k |-> "struct", fields |-> fields]

\* a struct field: `json:"key"` or `json:"key,omitempty"`
Field(key, omitempty, type) == [key |-> key, omitempty |-> omitempty, type |-> type]
StrP(key) == Field(key, TRUE, GPtrTo(GString))
IntP(key) == Field(key, TRUE, GPtrTo(GInt))
FloatP(key) == Field(key, TRUE, GPtrTo(GFloat64))
BoolP(key) == Field(key, TRUE, GPtrTo(GBool))

FieldKeys(ty) == {ty.fields[i].key : i \in 1..Len(ty.fields)}
FieldType(ty, key) == (CHOOSE f \in Range(ty.fields) : f.key = key).type

JBool(b) == [t |-> "bool", b |-> b]
JFloat(c) == [t |-> "float", c |-> c]

\* the zero value of a type
RECURSIVE Zero(_)
Zero(ty) ==
    CASE ty.k = "string" -> VStr("")
      [] ty.k = "int" -> VInt(0)
      [] ty.k = "float64" -> VFloat(0)
      [] ty.k = "bool" -> VBool(FALSE)
      [] ty.k = "struct" -> VStruct([key \in FieldKeys(ty) |-> Zero(FieldType(ty, key))])
      [] OTHER -> VNil

\* what omitempty leaves out: false, 0, a nil pointer or interface, and an
\* empty string, map or slice
IsEmptyValue(x) ==
    \/ x.v = "nil"
    \/ x.v = "string" /\ x.s = ""
    \/ x.v = "int" /\ x.n = 0
    \/ x.v = "float64" /\ x.c = 0
    \/ x.v = "bool" /\ ~x.b
    \/ x.v = "map" /\ DOMAIN x.m = {}
    \/ x.v = "slice" /\ x.a = <<>>

\* the fields of a struct value that are written
Written(ty, x) ==
    LET Keep(f) == ~(f.omitempty /\ IsEmptyValue(x.f[f.key]))
    IN SelectSeq(ty.fields, Keep)

\* the keys the sampled maps use, in the sorted order json.Marshal writes them
MapKeyOrder == <<"k", "n">>

SortedKeys(m) ==
    LET In(key) == key \in DOMAIN m
    IN SelectSeq(MapKeyOrder, In)

RECURSIVE Join(_, _)
Join(strs, sep) ==
    IF strs = <<>> THEN ""
    ELSE IF Len(strs) = 1 THEN strs[1]
    ELSE strs[1] \o sep \o Join(Tail(strs), sep)

\* strconv.FormatFloat(f, 'f', -1, 64) of c hundredths, c >= 0
FormatFloat(c) ==
    IF c % 100 = 0 THEN UDecimal(c \div 100)
    ELSE IF c % 10 = 0 THEN UDecimal(c \div 100) \o "." \o Digit((c % 100) \div 10)
    ELSE UDecimal(c \div 100) \o "." \o Digit((c % 100) \div 10) \o Digit(c % 10)

\* json.Marshal refuses the value: a NaN float64 or a function inside it
RECURSIVE Unsupported(_)
Unsupported(x) ==
    CASE x.v = "NaN" -> "json.UnsupportedValueError"
      [] x.v = "func" -> "json.UnsupportedTypeError"
      [] x.v = "ptr" -> Unsupported(x.to)
      [] x.v = "map" ->
            IF \E key \in DOMAIN x.m : Unsupported(x.m[key]) # ""
            THEN Unsupported(x.m[CHOOSE key \in DOMAIN x.m : Unsupported(x.m[key]) # ""])
            ELSE ""
      [] x.v = "slice" ->
            IF \E i \in 1..Len(x.a) : Unsupported(x.a[i]) # ""
            THEN Unsupported(x.a[CHOOSE i \in 1..Len(x.a) : Unsupported(x.a[i]) # ""])
            ELSE ""
      [] x.v = "struct" ->
            IF \E key \in DOMAIN x.f : Unsupported(x.f[key]) # ""
            THEN Unsupported(x.f[CHOOSE key \in DOMAIN x.f : Unsupported(x.f[key]) # ""])
            ELSE ""
      [] OTHER -> ""

\* the text json.Marshal writes for a value of a type
RECURSIVE EncodeText(_, _)
EncodeText(ty, x) ==
    CASE x.v = "nil" -> "null"
      [] x.v = "ptr" -> EncodeText(ty.elem, x.to)
      [] x.v = "string" -> "\"" \o x.s \o "\""
      [] x.v = "int" -> Itoa(x.n)
      [] x.v = "float64" -> FormatFloat(x.c)
      [] x.v = "bool" -> IF x.b THEN "true" ELSE "false"
      [] x.v = "slice" ->
            "[" \o Join([i \in 1..Len(x.a) |-> EncodeText(ty.elem, x.a[i])], ",") \o "]"
      [] x.v = "map" ->
            LET keys == SortedKeys(x.m)
            IN "{" \o Join([i \in 1..Len(keys) |->
                              "\"" \o keys[i] \o "\":" \o EncodeText(GAny, x.m[keys[i]])],
                           ",") \o "}"
      [] x.v = "struct" ->
            LET fs == Written(ty, x)
            IN "{" \o Join([i \in 1..Len(fs) |->
                              "\"" \o fs[i].key \o "\":"
                                   \o EncodeText(fs[i].type, x.f[fs[i].key])],
                           ",") \o "}"

\* the parse tree of that text
RECURSIVE EncodeTree(_, _)
EncodeTree(ty, x) ==
    CASE x.v = "nil" -> JNull
      [] x.v = "ptr" -> EncodeTree(ty.elem, x.to)
      [] x.v = "string" -> JStr(x.s)
      [] x.v = "int" -> JNum(x.n)
      [] x.v = "float64" -> IF x.c % 100 = 0 THEN JNum(x.c \div 100) ELSE JFloat(x.c)
      [] x.v = "bool" -> JBool(x.b)
      [] x.v = "slice" -> JArr([i \in 1..Len(x.a) |-> EncodeTree(ty.elem, x.a[i])])
      [] x.v = "map" -> JObj([key \in DOMAIN x.m |-> EncodeTree(GAny, x.m[key])])
      [] x.v = "struct" ->
            LET fs == Written(ty, x)
            IN JObj([key \in {fs[i].key : i \in 1..Len(fs)} |->
                        EncodeTree(FieldType(ty, key), x.f[key])])

\* ToJSON: json.Marshal, and the bytes as a string
ToJSON(ty, x) ==
    IF Unsupported(x) # ""
    THEN [err |-> Unsupported(x), out |-> Body("", JInvalid)]
    ELSE [err |-> "", out |-> Body(EncodeText(ty, x), EncodeTree(ty, x))]

\* no UnmarshalTypeError: every JSON value suits the Go type it lands in
RECURSIVE Suits(_, _)
Suits(ty, j) ==
    \/ j.t = "null"
    \/ ty.k = "any"
    \/ ty.k = "ptr" /\ Suits(ty.elem, j)
    \/ ty.k = "string" /\ j.t = "str"
    \/ ty.k = "int" /\ j.t = "num"
    \/ ty.k = "float64" /\ j.t \in {"num", "float"}
    \/ ty.k = "bool" /\ j.t = "bool"
    \/ ty.k = "map" /\ j.t = "obj"
    \/ ty.k = "slice" /\ j.t = "arr" /\ \A i \in 1..Len(j.a) : Suits(ty.elem, j.a[i])
    \/ ty.k = "struct" /\ j.t = "obj"
         /\ \A key \in DOMAIN j.f \cap FieldKeys(ty) : Suits(FieldType(ty, key), j.f[key])

\* json.Unmarshal of one value into a target holding cur: null clears a
\* pointer, map, slice or interface and leaves anything else alone; a number
\* stored into an interface is a float64; keys the struct lacks are skipped
\* and fields the object lacks keep what they held
RECURSIVE DecodeInto(_, _, _)
DecodeInto(ty, j, cur) ==
    IF j.t = "null"
    THEN IF ty.k \in {"ptr", "map", "slice", "any"} THEN VNil ELSE cur
    ELSE CASE ty.k = "ptr" ->
                VPtr(DecodeInto(ty.elem, j, IF cur.v = "nil" THEN Zero(ty.elem) ELSE cur.to))
           [] ty.k = "string" -> VStr(j.s)
           [] ty.k = "int" -> VInt(j.v)
           [] ty.k = "float64" -> IF j.t = "num" THEN VFloat(100 * j.v) ELSE VFloat(j.c)
           [] ty.k = "bool" -> VBool(j.b)
           [] ty.k = "any" ->
                (CASE j.t = "str" -> VStr(j.s)
                   [] j.t = "num" -> VFloat(100 * j.v)
                   [] j.t = "float" -> VFloat(j.c)
                   [] j.t = "bool" -> VBool(j.b)
                   [] j.t = "obj" ->
                        VMap([key \in DOMAIN j.f |-> DecodeInto(GAny, j.f[key], VNil)])
                   [] j.t = "arr" ->
                        VSlice([i \in 1..Len(j.a) |-> DecodeInto(GAny, j.a[i], VNil)]))
           [] ty.k = "map" ->
                VMap([key \in DOMAIN j.f |-> DecodeInto(GAny, j.f[key], VNil)])
           [] ty.k = "slice" ->
                VSlice([i \in 1..Len(j.a) |-> DecodeInto(ty.elem, j.a[i], Zero(ty.elem))])
           [] ty.k = "struct" ->
                VStruct([key \in FieldKeys(ty) |->
                           IF key \in DOMAIN j.f
                           THEN DecodeInto(FieldType(ty, key), j.f[key], cur.f[key])
                           ELSE cur.f[key]])

\* FromJSON into a pointer to a zero value of the type
FromJSON(data, ty) ==
    IF data.json.t = "invalid" THEN [err |-> "json.SyntaxError", val |-> Zero(ty)]
    ELSE IF ~Suits(ty, data.json) THEN [err |-> "json.UnmarshalTypeError", val |-> Zero(ty)]
    ELSE [err |-> "", val |-> DecodeInto(ty, data.json, Zero(ty))]

GoCustomer == GStructOf(<<Field("email", FALSE, GString)>>)

GoCheckoutRequest ==
    GStructOf(<<Field("product_id", FALSE, GString),
                Field("customer", TRUE, GPtrTo(GoCustomer)),
                StrP("request_id"), StrP("units"), StrP("success_url"),
                Field("metadata", TRUE, GMap)>>)

GoCheckoutResponse ==
    GStructOf(<<StrP("object"), IntP("units"), Field("metadata", TRUE, GMap),
                StrP("status"), StrP("mode"), StrP("payment_id"), StrP("product_id"),
                StrP("request_id"), StrP("success_url"), StrP("checkout_url"),
                StrP("created_at"), StrP("updated_at"), StrP("expires_on")>>)

GoCreateProductRequest ==
    GStructOf(<<Field("name", FALSE, GString), Field("description", FALSE, GString),
                Field("price", FALSE, GFloat64), Field("currency", FALSE, GString),
                Field("billing_type", FALSE, GString), Field("tax_inclusive", FALSE, GBool),
                Field("tax_category", FALSE, GString),
                Field("recurring_interval", FALSE, GString),
                Field("trial_days", FALSE, GInt)>>)

GoUpdateProductRequest ==
    GStructOf(<<Field("product_id", FALSE, GString)>> \o GoCreateProductRequest.fields)

GoProduct ==
    GStructOf(<<StrP("name"), StrP("description"), FloatP("price"), StrP("currency"),
                StrP("object"), StrP("mode"), StrP("product_id"), StrP("store_id"),
                StrP("product_url"), StrP("billing_type"), StrP("billing_period"),
                StrP("tax_category"), BoolP("tax_inclusive"), BoolP("is_archive"),
                StrP("created_at"), StrP("updated_at"), IntP("trial_days"),
                StrP("recurring_interval")>>)

GoCustomerRef == GStructOf(<<StrP("id"), StrP("email")>>)

GoTransaction ==
    GStructOf(<<StrP("object"), StrP("order_id"), StrP("transaction_id"),
                FloatP("amount"), FloatP("amount_paid"), FloatP("discount_amount"),
                StrP("currency"), FloatP("tax_amount"), StrP("tax_country"),
                FloatP("refunded_amount"), StrP("type"),
                Field("customer", TRUE, GPtrTo(GoCustomerRef)),
                StrP("created_at"), StrP("updated_at"), StrP("remark"), StrP("mode"),
                FloatP("fees"), FloatP("tax"), FloatP("net")>>)

GoSubscription ==
    GStructOf(<<StrP("object"), StrP("status"), StrP("remark"),
                Field("customer", TRUE, GPtrTo(GoCustomerRef)),
                StrP("mode"), FloatP("amount"), StrP("last4"), StrP("subscription_id"),
                StrP("product_id"), StrP("store_id"), StrP("billing_period_start"),
                StrP("billing_period_end"), StrP("cancel_at"), StrP("trial_start"),
                StrP("trial_end"), IntP("units"), StrP("created_at"), StrP("updated_at"),
                StrP("product_name"), StrP("payment_method"),
                FloatP("next_billing_amount"), StrP("recurring_interval")>>)

GoCustomerData ==
    GStructOf(<<IntP("id"), StrP("name"), StrP("email"), StrP("remark"),
                IntP("subscriptions"), IntP("payments"), StrP("store_id"),
                FloatP("total_spend"), StrP("created_at"), StrP("updated_at")>>)

GoListResponse(T) ==
    GStructOf(<<Field("total", FALSE, GInt), Field("items", FALSE, GSliceOf(T)),
                Field("code", FALSE, GInt), Field("msg", FALSE, GString)>>)

\* the Go type of a model, by name
GoType(name) ==
    CASE name = "CheckoutRequest" -> GoCheckoutRequest
      [] name = "CheckoutResponse" -> GoCheckoutResponse
      [] name = "CreateProductRequest" -> GoCreateProductRequest
      [] name = "UpdateProductRequest" -> GoUpdateProductRequest
      [] name = "Product" -> GoProduct
      [] name = "Transaction" -> GoTransaction
      [] name = "Subscription" -> GoSubscription
      [] name = "CustomerData" -> GoCustomerData
      [] name = "ProductListResponse" -> GoListResponse(GoProduct)
      [] name = "TransactionListResponse" -> GoListResponse(GoTransaction)
      [] name = "SubscriptionListResponse" -> GoListResponse(GoSubscription)
      [] name = "CustomerListResponse" -> GoListResponse(GoCustomerData)

\* a value of a struct type that holds the given fields and zero elsewhere
With(ty, set) ==
    VStruct([key \in FieldKeys(ty) |->
                IF key \in DOMAIN set THEN set[key] ELSE Zero(FieldType(ty, key))])

\* json.Marshal of a request model: fails on a value JSON cannot express
\* (a NaN/Inf float64 price, an unsupported value inside Metadata)
Marshal(data) ==
    LET j == ToJSON(GoType(data.type), data.v)
    IN IF j.err = "" THEN [err |-> "", bytes |-> j.out]
                     ELSE [err |-> j.err, bytes |-> NoBody]

ValidMethods == {"GET", "HEAD", "POST", "PUT", "PATCH", "DELETE", "OPTIONS"}

\* a request built without the caller's context (http.NewRequest)
NewRequestBackground(ctx, method, url, body) ==
    IF method \notin ValidMethods
    THEN [err |-> "net/http: invalid method", req |-> NoRequest]
    ELSE IF ctx = "nil"
    THEN [err |-> "net/http: nil Context", req |-> NoRequest]
    ELSE IF urlParse(url).err # ""
    THEN [err |-> urlParse(url).err, req |-> NoRequest]
    ELSE [err |-> "",
          req |-> [Method |-> method, URL |-> url, Body |-> body, ctx |-> "background",
                   Header |-> [k \in {} |-> ""]]]

\* http.NewRequestWithContext
NewRequestWithContext(ctx, method, url, body) ==
    IF method \notin ValidMethods
    THEN [err |-> "net/http: invalid method", req |-> NoRequest]
    ELSE IF ctx = "nil"
    THEN [err |-> "net/http: nil Context", req |-> NoRequest]
    ELSE IF urlParse(url).err # ""
    THEN [err |-> urlParse(url).err, req |-> NoRequest]
    ELSE [err |-> "",
          req |-> [Method |-> method, URL |-> url, Body |-> body, ctx |-> ctx,
                   Header |-> [k \in {} |-> ""]]]

\* a test that lets every parameter through
ParamIncludedAlways(value) == TRUE

\* the test `value != ""` guarding q.Add
ParamIncluded(value) == value # <<>>

\* the loop over params; the keys of a Go map are distinct, so the order in
\* which range visits them does not show in the result
RECURSIVE AddParams(_, _, _)
AddParams(q, m, keys) ==
    IF keys = {} THEN q
    ELSE LET key == CHOOSE k \in keys : TRUE
         IN AddParams(IF ParamIncluded(m[key]) THEN ValuesAdd(q, key, m[key]) ELSE q,
                      m, keys \ {key})

\* a body test that forgets the method
CarriesBodyAnyMethod(method, data) == data # Nil

\* the test guarding json.Marshal: a model was passed and the method carries a body
CarriesBody(method, data) == data # Nil /\ method \in {"POST", "PUT", "PATCH"}

\* the three req.Header.Set calls
RequestHeaders(c) ==
    [k \in {"Content-Type", "User-Agent", "x-api-key"} |->
        IF k = "Content-Type" THEN "application/json"
        ELSE IF k = "User-Agent" THEN "BagelPay-Go-SDK/1.0.0"
        ELSE c.apiKey]

\* makeRequest up to the call of httpClient.Do: the error it returns, or
\* the request it hands to the transport
makeRequest(c, ctx, method, endpoint, data, params) ==
    LET parsed == urlParse(c.baseURL \o endpoint)
    IN IF parsed.err # ""
       THEN [err |-> NewBagelPayError("invalid URL", parsed.err), req |-> NoRequest]
       ELSE
       LET u == IF params.nil THEN parsed
                ELSE [parsed EXCEPT !.RawQuery =
                        ValuesEncode(AddParams(URLQuery(parsed), params.m, DOMAIN params.m))]
           hasBody == CarriesBody(method, data)
           jsonData == IF hasBody THEN Marshal(data) ELSE [err |-> "", bytes |-> NoBody]
       IN IF jsonData.err # ""
          THEN [err |-> NewBagelPayError("failed to marshal request data", jsonData.err),
                req |-> NoRequest]
          ELSE
          LET r == NewRequestWithContext(ctx, method, URLString(u), jsonData.bytes)
          IN IF r.err # ""
             THEN [err |-> NewBagelPayError("failed to create request", r.err),
                   req |-> NoRequest]
             ELSE [err |-> Nil,
                   req |-> [r.req EXCEPT !.Header = RequestHeaders(c)]]

\* a classification that has lost its 404 case
ClassifyErrorNo404(statusCode, apiError) ==
    CASE statusCode = 401 -> NewBagelPayAuthenticationErrorSimple(apiError.Message, NoCause)
      [] statusCode = 400 -> NewBagelPayValidationErrorSimple(apiError.Message, NoCause)
      [] statusCode = 429 -> NewBagelPayRateLimitErrorSimple(apiError.Message, NoCause)
      [] OTHER -> IF statusCode >= 500
                  THEN NewBagelPayServerErrorSimple(statusCode, apiError.Message, NoCause)
                  ELSE NewBagelPayAPIError(statusCode, apiError, NoCause)

\* the error kind handleResponse selects for a status >= 400
ClassifyError(statusCode, apiError) ==
    CASE statusCode = 401 -> NewBagelPayAuthenticationErrorSimple(apiError.Message, NoCause)
      [] statusCode = 400 -> NewBagelPayValidationErrorSimple(apiError.Message, NoCause)
      [] statusCode = 404 -> NewBagelPayNotFoundErrorSimple(apiError.Message, NoCause)
      [] statusCode = 429 -> NewBagelPayRateLimitErrorSimple(apiError.Message, NoCause)
      [] OTHER -> IF statusCode >= 500
                  THEN NewBagelPayServerErrorSimple(statusCode, apiError.Message, NoCause)
                  ELSE NewBagelPayAPIError(statusCode, apiError, NoCause)

\* a fallback payload whose message is the raw body alone
FallbackAPIErrorRawOnly(statusCode, raw) ==
    APIError(statusCode, raw, "")

\* the payload built when the error body does not decode
FallbackAPIError(statusCode, raw) ==
    APIError(statusCode, "HTTP " \o Itoa(statusCode) \o ": " \o raw, "")

\* handleResponse(resp, &result): the error returned and the value left in result
\* a handleResponse that looks at the status before it reads the body
handleResponseStatusFirst(response, resultType) ==
    IF response.StatusCode >= 400
    THEN LET u == Unmarshal(response.body, APIErrorType)
             apiError == IF u.err # ""
                         THEN FallbackAPIError(response.StatusCode, response.body.raw)
                         ELSE APIErrorOf(u.val)
         IN [err |-> ClassifyError(response.StatusCode, apiError), val |-> JNull, closes |-> 1]
    ELSE IF response.readErr
    THEN [err |-> NewBagelPayError("failed to read response body", "io: read error"),
          val |-> JNull, closes |-> 1]
    ELSE IF resultType = Nil
    THEN [err |-> Nil, val |-> JNull, closes |-> 1]
    ELSE LET u == Unmarshal(response.body, resultType)
         IN IF u.err # ""
            THEN [err |-> NewBagelPayError("failed to parse response", u.err), val |-> u.val, closes |-> 1]
            ELSE [err |-> Nil, val |-> u.val, closes |-> 1]

\* a handleResponse that also falls back when the payload has no message
handleResponseFallbackOnEmpty(response, resultType) ==
    IF response.readErr
    THEN [err |-> NewBagelPayError("failed to read response body", "io: read error"),
          val |-> JNull, closes |-> 1]
    ELSE IF response.StatusCode >= 400
    THEN LET u == Unmarshal(response.body, APIErrorType)
             apiError == IF u.err # "" \/ APIErrorOf(u.val).Message = ""
                         THEN FallbackAPIError(response.StatusCode, response.body.raw)
                         ELSE APIErrorOf(u.val)
         IN [err |-> ClassifyError(response.StatusCode, apiError), val |-> JNull, closes |-> 1]
    ELSE IF resultType = Nil
    THEN [err |-> Nil, val |-> JNull, closes |-> 1]
    ELSE LET u == Unmarshal(response.body, resultType)
         IN IF u.err # ""
            THEN [err |-> NewBagelPayError("failed to parse response", u.err), val |-> u.val, closes |-> 1]
            ELSE [err |-> Nil, val |-> u.val, closes |-> 1]

\* a handleResponse that closes the body at the end of the success path
\* instead of deferring the Close
handleResponseCloseAtEnd(response, resultType) ==
    IF response.readErr
    THEN [err |-> NewBagelPayError("failed to read response body", "io: read error"),
          val |-> JNull, closes |-> 0]
    ELSE IF response.StatusCode >= 400
    THEN LET u == Unmarshal(response.body, APIErrorType)
             apiError == IF u.err # ""
                         THEN FallbackAPIError(response.StatusCode, response.body.raw)
                         ELSE APIErrorOf(u.val)
         IN [err |-> ClassifyError(response.StatusCode, apiError), val |-> JNull,
             closes |-> 0]
    ELSE IF resultType = Nil
    THEN [err |-> Nil, val |-> JNull, closes |-> 1]
    ELSE LET u == Unmarshal(response.body, resultType)
         IN IF u.err # ""
            THEN [err |-> NewBagelPayError("failed to parse response", u.err), val |-> u.val,
                  closes |-> 0]
            ELSE [err |-> Nil, val |-> u.val, closes |-> 1]

\* `defer resp.Body.Close()` is the first statement: the Close runs once,
\* whichever return is taken (closes counts the Close calls made)
handleResponse(response, resultType) ==
    IF response.readErr
    THEN [err |-> NewBagelPayError("failed to read response body", "io: read error"),
          val |-> JNull, closes |-> 1]
    ELSE IF response.StatusCode >= 400
    THEN LET u == Unmarshal(response.body, APIErrorType)
             apiError == IF u.err # ""
                         THEN FallbackAPIError(response.StatusCode, response.body.raw)
                         ELSE APIErrorOf(u.val)
         IN [err |-> ClassifyError(response.StatusCode, apiError), val |-> JNull, closes |-> 1]
    ELSE IF resultType = Nil
    THEN [err |-> Nil, val |-> JNull, closes |-> 1]
    ELSE LET u == Unmarshal(response.body, resultType)
         IN IF u.err # ""
            THEN [err |-> NewBagelPayError("failed to parse response", u.err), val |-> u.val, closes |-> 1]
            ELSE [err |-> Nil, val |-> u.val, closes |-> 1]

\* a tail that hands the model back together with the error
OpReturnKeepModel(err, model) ==
    [model |-> model, err |-> err]

\* The tail shared by the twelve operations:
\*   if err != nil { return nil, err } ... return &model, nil
OpReturn(err, model) ==
    IF err # Nil THEN [model |-> Nil, err |-> err]
                 ELSE [model |-> model, err |-> Nil]

\* &apiResp.Data: the record under "data", all fields absent if nothing was stored
\* a nil record when the body has no data key
DataOfNilWhenAbsent(val) ==
    IF val.t = "obj" /\ "data" \in DOMAIN val.f THEN val.f["data"] ELSE Nil

DataOf(val) ==
    IF val.t = "obj" /\ "data" \in DOMAIN val.f THEN val.f["data"] ELSE JObj(NoFields)

\* &result of a list operation
ListOf(val) == IF val.t = "obj" THEN val ELSE JObj(NoFields)

----------------------------------------------------------------------------
(* Inputs                                                                  *)

MaxSlashes == 2
MaxPage == 1

APIKeys == {"", "bagel_test_key"}

CustomHost == <<"https:", "/", "/", "api.example.com">>

RECURSIVE Slashes(_)
Slashes(n) == IF n = 0 THEN <<>> ELSE <<"/">> \o Slashes(n - 1)

\* "" (no override) and a custom host followed by 0..MaxSlashes slashes
BaseURLs == {<<>>} \cup {CustomHost \o Slashes(n) : n \in 0..MaxSlashes}

ConfigLiterals ==
    [APIKey : APIKeys, TestMode : {"unset", "true", "false"}, BaseURL : BaseURLs]

\* a nil context, one that is never done, one the caller may cancel (or whose
\* deadline may elapse) during the call, one that is already done when passed
Contexts == {"nil", "background", "cancelable", "canceled"}

\* ctx.Done() is closed
Done(ctx) == ctx = "canceled" \/ (ctx = "cancelable" /\ ctxDone)

\* resource ids: an ordinary one, the empty string, one holding a control byte
\* an ordinary ID, the empty one, one with a control byte, the name of a
\* sibling endpoint, and IDs holding "?", "/" and "#"
IDs == {<<"id_1">>, <<>>, <<"id", CTL>>, <<"list">>,
        <<"x", "?", "pageNum", "=", "1">>, <<"a", "/", "b">>, <<"x", "#", "frag">>}

\* -1, 0, the small positive values and one with two digits
PageValues == (-1..MaxPage) \cup {12 * MaxPage}

\* request models: one JSON can express and one it cannot
\* request models: one that marshals and one that json.Marshal refuses (a
\* function value in Metadata, a NaN price)
RequestModels(type) ==
    IF type = "CheckoutRequest"
    THEN {[type |-> type,
           v |-> With(GoCheckoutRequest,
                      [key \in {"product_id", "metadata"} |->
                          IF key = "product_id" THEN VStr("id_1") ELSE meta])] :
            meta \in {VNil, VMap([key \in {"k"} |-> VFunc])}}
    ELSE {[type |-> type,
           v |-> With(GoType(type),
                      [key \in {"name", "price"} |->
                          IF key = "name" THEN VStr("Pro") ELSE price])] :
            price \in {VFloat(999), VNaN}}

ParamKeys == {KeyOrder[i] : i \in 1..Len(KeyOrder)}
ParamValues == {<<>>, <<"x", "=", "y", " ", "&", "z">>}
ParamMaps == UNION {[ks -> ParamValues] : ks \in SUBSET ParamKeys}

\* direct calls of makeRequest: any parameter mapping without a model, and
\* any method with and without a model
MakeRequestInputs ==
    {[method |-> mt, data |-> Nil, params |-> Params(m)] :
        mt \in {"GET", "POST"}, m \in ParamMaps}
    \cup {[method |-> mt, data |-> d, params |-> NilParams] :
        mt \in {"GET", "POST", "PUT", "PATCH", "DELETE"},
        d \in RequestModels("CreateProductRequest")}

\* most items a sampled list response holds
MaxItems == 1

\* optional fields: absent, present and empty, present and not empty
StrPtrs == {VNil, VPtr(VStr("")), VPtr(VStr("x"))}
IntPtrs == {VNil, VPtr(VInt(0)), VPtr(VInt(7))}
FloatPtrs == {VNil, VPtr(VFloat(0)), VPtr(VFloat(950))}
BoolPtrs == {VNil, VPtr(VBool(FALSE)), VPtr(VBool(TRUE))}

\* metadata: nil, empty and not nil, holding a string, an int, a function
Metadatas ==
    {VNil, VMap(EmptyMap), VMap([key \in {"k"} |-> VStr("v")]),
     VMap([key \in {"n"} |-> VInt(1)]), VMap([key \in {"k"} |-> VFunc])}

CustomerRefs ==
    {VNil} \cup {VPtr(With(GoCustomerRef, [key \in {"email"} |-> e])) : e \in StrPtrs}

Model(type, set) == [type |-> type, v |-> With(GoType(type), set)]

\* the items of a list response: a nil slice, or up to MaxItems elements
ItemsOf(type) ==
    LET elems == {With(GoType(type), [key \in {"object"} |-> o]) : o \in StrPtrs}
    IN {VNil} \cup {VSlice(a) : a \in UNION {[1..n -> elems] : n \in 0..MaxItems}}

\* the model values handed to ToJSON
Models ==
    {Model("Product", [key \in {"name", "price", "is_archive", "trial_days"} |->
                CASE key = "name" -> a [] key = "price" -> b
                  [] key = "is_archive" -> c [] key = "trial_days" -> d]) :
        a \in StrPtrs, b \in FloatPtrs, c \in BoolPtrs, d \in IntPtrs}
    \cup {Model("Subscription", [key \in {"status", "customer", "units"} |->
                CASE key = "status" -> a [] key = "customer" -> b [] key = "units" -> c]) :
        a \in StrPtrs, b \in CustomerRefs, c \in IntPtrs}
    \cup {Model("Transaction", [key \in {"amount", "type", "customer"} |->
                CASE key = "amount" -> a [] key = "type" -> b [] key = "customer" -> c]) :
        a \in FloatPtrs, b \in StrPtrs, c \in CustomerRefs}
    \cup {Model("CustomerData", [key \in {"id", "total_spend"} |->
                IF key = "id" THEN a ELSE b]) :
        a \in IntPtrs, b \in FloatPtrs}
    \cup {Model("CheckoutRequest", [key \in {"product_id", "customer", "units", "metadata"} |->
                CASE key = "product_id" -> VStr(a) [] key = "customer" -> b
                  [] key = "units" -> c [] key = "metadata" -> d]) :
        a \in {"", "id_1"},
        b \in {VNil} \cup {VPtr(With(GoCustomer, [key \in {"email"} |-> VStr(e)])) :
                              e \in {"", "a@b.io"}},
        c \in StrPtrs, d \in Metadatas}
    \cup {Model("CheckoutResponse", [key \in {"units", "metadata", "status"} |->
                CASE key = "units" -> a [] key = "metadata" -> b [] key = "status" -> c]) :
        a \in IntPtrs, b \in Metadatas, c \in StrPtrs}
    \cup UNION {{Model(l.list, [key \in {"total", "items", "msg"} |->
                        CASE key = "total" -> VInt(a) [] key = "items" -> b
                          [] key = "msg" -> VStr("ok")]) :
                    a \in {0, 1}, b \in ItemsOf(l.item)} :
                l \in {[list |-> "ProductListResponse", item |-> "Product"],
                       [list |-> "TransactionListResponse", item |-> "Transaction"],
                       [list |-> "SubscriptionListResponse", item |-> "Subscription"],
                       [list |-> "CustomerListResponse", item |-> "CustomerData"]}}

Statuses == {200, 399, 400, 401, 403, 404, 429, 499, 500, 503}

Bodies ==
    { Body("", JInvalid),
      Body("Internal Server Error", JInvalid),
      Body("null", JNull),
      Body("[]", JArr(<<>>)),
      Body("{}", JObj(NoFields)),
      Body("{\"code\":401,\"message\":\"invalid api key\"}",
           JObj([k \in {"code", "message"} |->
                   IF k = "code" THEN JNum(401) ELSE JStr("invalid api key")])),
      Body("{\"code\":\"E42\",\"message\":\"bad\"}",
           JObj([k \in {"code", "message"} |->
                   IF k = "code" THEN JStr("E42") ELSE JStr("bad")])),
      Body("{\"data\":{\"product_id\":\"id_1\",\"status\":\"active\"}}",
           JObj([k \in {"data"} |->
                   JObj([j \in {"product_id", "status"} |->
                           IF j = "product_id" THEN JStr("id_1") ELSE JStr("active")])])),
      Body("{\"total\":0,\"items\":[],\"code\":0,\"msg\":\"ok\"}",
           JObj([k \in {"total", "items", "code", "msg"} |->
                   IF k = "items" THEN JArr(<<>>)
                   ELSE IF k = "msg" THEN JStr("ok") ELSE JNum(0)])) }

\* what httpClient.Do can hand back: a status with a body that reads to the
\* end, or a status whose body fails while being read
Responses ==
    {[StatusCode |-> st, body |-> b, readErr |-> FALSE] : st \in Statuses, b \in Bodies}
    \cup {[StatusCode |-> st, body |-> Body("", JInvalid), readErr |-> TRUE] : st \in Statuses}

----------------------------------------------------------------------------
(* Operations                                                              *)

Operations ==
    {"CreateCheckout", "CreateProduct", "GetProduct", "ListProducts",
     "UpdateProduct", "ArchiveProduct", "UnarchiveProduct", "ListTransactions",
     "ListSubscriptions", "GetSubscription", "CancelSubscription", "ListCustomers"}

ListOperations ==
    {"ListProducts", "ListTransactions", "ListSubscriptions", "ListCustomers"}

\* the type each operation passes to handleResponse
ResultType(op) ==
    CASE op = "CreateCheckout" -> DataWrapper(CheckoutResponseType)
      [] op \in {"CreateProduct", "GetProduct", "UpdateProduct", "ArchiveProduct",
                 "UnarchiveProduct"} -> DataWrapper(ProductType)
      [] op \in {"GetSubscription", "CancelSubscription"} -> DataWrapper(SubscriptionType)
      [] op = "ListProducts" -> ListResponse(ProductType)
      [] op = "ListTransactions" -> ListResponse(TransactionType)
      [] op = "ListSubscriptions" -> ListResponse(SubscriptionType)
      [] op = "ListCustomers" -> ListResponse(CustomerDataType)

\* the pointer each operation returns on success
ModelOf(op, val) == IF op \in ListOperations THEN ListOf(val) ELSE DataOf(val)

\* a params map that also sends a page value of 0
PageParamsFromZero(pageNum, pageSize) ==
    LET keys == (IF pageSize >= 0 THEN {<<"pageSize">>} ELSE {})
                \cup (IF pageNum >= 0 THEN {<<"pageNum">>} ELSE {})
    IN Params([k \in keys |->
                  IF k = <<"pageSize">> THEN <<Itoa(pageSize)>> ELSE <<Itoa(pageNum)>>])

\* the params map of the list operations
PageParams(pageNum, pageSize) ==
    LET keys == (IF pageSize > 0 THEN {<<"pageSize">>} ELSE {})
                \cup (IF pageNum > 0 THEN {<<"pageNum">>} ELSE {})
    IN Params([k \in keys |->
                  IF k = <<"pageSize">> THEN <<Itoa(pageSize)>> ELSE <<Itoa(pageNum)>>])

\* An operation up to the point where it waits for the transport: it
\* either returns makeRequest's error or has its request in flight.
Begin(op, args, ctx, method, endpoint, data, params) ==
    LET mr == makeRequest(client, ctx, method, endpoint, data, params)
    IN /\ client # NoClient
       /\ pc = "idle"
       /\ call' = [op |-> op, args |-> args, ctx |-> ctx, method |-> method,
                   endpoint |-> endpoint, data |-> data, params |-> params]
       /\ IF mr.err # Nil
          THEN /\ pc' = "done"
               /\ req' = NoRequest
               /\ issued' = 0
               /\ result' = OpReturn(mr.err, Nil)
          ELSE /\ pc' = "inflight"
               /\ req' = mr.req
               /\ issued' = issued + 1
               /\ result' = Nil
       /\ resp' = NoResponse
       /\ closed' = 0
       /\ UNCHANGED <<config, client, ctxDone, aux>>

CreateCheckout ==
    \E ctx \in Contexts, request \in RequestModels("CheckoutRequest") :
        Begin("CreateCheckout", [request |-> request], ctx, "POST",
              <<"/", "api", "/", "payments", "/", "checkouts">>, request, NilParams)

CreateProduct ==
    \E ctx \in Contexts, request \in RequestModels("CreateProductRequest") :
        Begin("CreateProduct", [request |-> request], ctx, "POST",
              <<"/", "api", "/", "products", "/", "create">>, request, NilParams)

\* url.PathEscape of an ID
PathEscape(id) ==
    [i \in 1..Len(id) |->
        CASE id[i] = "/" -> "%2F" [] id[i] = "?" -> "%3F" [] id[i] = "#" -> "%23"
          [] id[i] = CTL -> "%01" [] OTHER -> id[i]]

\* a GetProduct that escapes the ID before it enters the path
GetProductEscaped ==
    \E ctx \in Contexts, productID \in IDs :
        Begin("GetProduct", [id |-> productID], ctx, "GET",
              <<"/", "api", "/", "products", "/">> \o PathEscape(productID), Nil, NilParams)

GetProduct ==
    \E ctx \in Contexts, productID \in IDs :
        Begin("GetProduct", [id |-> productID], ctx, "GET",
              <<"/", "api", "/", "products", "/">> \o productID, Nil, NilParams)

ListProducts ==
    \E ctx \in Contexts, pageNum \in PageValues, pageSize \in PageValues :
        Begin("ListProducts", [pageNum |-> pageNum, pageSize |-> pageSize], ctx, "GET",
              <<"/", "api", "/", "products", "/", "list">>, Nil,
              PageParams(pageNum, pageSize))

\* an update sent with PUT
UpdateProductPut ==
    \E ctx \in Contexts, request \in RequestModels("UpdateProductRequest") :
        Begin("UpdateProduct", [request |-> request], ctx, "PUT",
              <<"/", "api", "/", "products", "/", "update">>, request, NilParams)

UpdateProduct ==
    \E ctx \in Contexts, request \in RequestModels("UpdateProductRequest") :
        Begin("UpdateProduct", [request |-> request], ctx, "POST",
              <<"/", "api", "/", "products", "/", "update">>, request, NilParams)

ArchiveProduct ==
    \E ctx \in Contexts, productID \in IDs :
        Begin("ArchiveProduct", [id |-> productID], ctx, "POST",
              <<"/", "api", "/", "products", "/">> \o productID \o <<"/", "archive">>,
              Nil, NilParams)

UnarchiveProduct ==
    \E ctx \in Contexts, productID \in IDs :
        Begin("UnarchiveProduct", [id |-> productID], ctx, "POST",
              <<"/", "api", "/", "products", "/">> \o productID \o <<"/", "unarchive">>,
              Nil, NilParams)

ListTransactions ==
    \E ctx \in Contexts, pageNum \in PageValues, pageSize \in PageValues :
        Begin("ListTransactions", [pageNum |-> pageNum, pageSize |-> pageSize], ctx, "GET",
              <<"/", "api", "/", "transactions", "/", "list">>, Nil,
              PageParams(pageNum, pageSize))

ListSubscriptions ==
    \E ctx \in Contexts, pageNum \in PageValues, pageSize \in PageValues :
        Begin("ListSubscriptions", [pageNum |-> pageNum, pageSize |-> pageSize], ctx, "GET",
              <<"/", "api", "/", "subscriptions", "/", "list">>, Nil,
              PageParams(pageNum, pageSize))

GetSubscription ==
    \E ctx \in Contexts, subscriptionID \in IDs :
        Begin("GetSubscription", [id |-> subscriptionID], ctx, "GET",
              <<"/", "api", "/", "subscriptions", "/">> \o subscriptionID, Nil, NilParams)

CancelSubscription ==
    \E ctx \in Contexts, subscriptionID \in IDs :
        Begin("CancelSubscription", [id |-> subscriptionID], ctx, "POST",
              <<"/", "api", "/", "subscriptions", "/">> \o subscriptionID \o <<"/", "cancel">>,
              Nil, NilParams)

ListCustomers ==
    \E ctx \in Contexts, pageNum \in PageValues, pageSize \in PageValues :
        Begin("ListCustomers", [pageNum |-> pageNum, pageSize |-> pageSize], ctx, "GET",
              <<"/", "api", "/", "customers", "/", "list">>, Nil,
              PageParams(pageNum, pageSize))

\* makeRequest called on its own (from inside the package) with an
\* arbitrary parameter mapping
CallMakeRequest ==
    \E in \in MakeRequestInputs :
        Begin("makeRequest", [none |-> TRUE], "background", in.method,
              <<"/", "api", "/", "products", "/", "list">>, in.data, in.params)

\* a transport failure answered by sending the request again
DoFailsRetry ==
    /\ pc = "inflight"
    /\ issued < 3
    /\ issued' = issued + 1
    /\ UNCHANGED <<config, client, pc, call, req, resp, result, ctxDone, closed, aux>>

\* httpClient.Do fails (DNS, connection, timeout, context done): makeRequest wraps the
\* failure and the operation returns it
DoFails ==
    /\ pc = "inflight"
    /\ pc' = "done"
    /\ result' = OpReturn(NewBagelPayError("request failed", "net: transport error"), Nil)
    /\ UNCHANGED <<config, client, call, req, resp, issued, ctxDone, closed, aux>>

\* httpClient.Do returns a response: makeRequest returns it, and an
\* operation passes it to handleResponse and returns.  The transport
\* watches the request's context: once that is done, Do returns its error
\* (DoFails), or the body of a response already returned fails to read.
DoResponds ==
    /\ pc = "inflight"
    /\ \E r \in Responses :
          /\ Done(req.ctx) => r.readErr
          /\ resp' = r
          /\ IF call.op = "makeRequest"
             THEN /\ result' = [model |-> [t |-> "response"], err |-> Nil]
                  /\ closed' = 0
             ELSE LET hr == handleResponse(r, ResultType(call.op))
                  IN /\ result' = OpReturn(hr.err, ModelOf(call.op, hr.val))
                     /\ closed' = hr.closes
    /\ pc' = "done"
    /\ UNCHANGED <<config, client, call, req, issued, ctxDone, aux>>

\* the caller cancels the context it passed, or its deadline elapses,
\* while the call is running
CancelContext ==
    /\ pc = "inflight"
    /\ call.ctx = "cancelable"
    /\ ~ctxDone
    /\ ctxDone' = TRUE
    /\ UNCHANGED <<config, client, pc, call, req, resp, result, issued, closed, aux>>

\* the caller has consumed the result; the client is ready for another call
Return ==
    /\ pc = "done"
    /\ pc' = "idle"
    /\ call' = NoCall
    /\ req' = NoRequest
    /\ resp' = NoResponse
    /\ result' = Nil
    /\ issued' = 0
    /\ ctxDone' = FALSE
    /\ closed' = 0
    /\ UNCHANGED <<config, client, aux>>

CallNewClient ==
    /\ client = NoClient
    /\ \E lit \in ConfigLiterals :
          /\ config' = [ctor |-> "NewClient", lit |-> lit]
          /\ client' = NewClient(ClientConfig(lit))
    /\ UNCHANGED <<pc, call, req, resp, result, issued, ctxDone, closed, aux>>

CallNewDefaultClient ==
    /\ client = NoClient
    /\ \E apiKey \in APIKeys :
          /\ config' = [ctor |-> "NewDefaultClient",
                        lit |-> [APIKey |-> apiKey, TestMode |-> "true", BaseURL |-> <<>>]]
          /\ client' = NewDefaultClient(apiKey)
    /\ UNCHANGED <<pc, call, req, resp, result, issued, ctxDone, closed, aux>>

CallNewTestClient ==
    /\ client = NoClient
    /\ \E apiKey \in APIKeys :
          /\ config' = [ctor |-> "NewTestClient",
                        lit |-> [APIKey |-> apiKey, TestMode |-> "true", BaseURL |-> <<>>]]
          /\ client' = NewTestClient(apiKey)
    /\ UNCHANGED <<pc, call, req, resp, result, issued, ctxDone, closed, aux>>

CallNewLiveClient ==
    /\ client = NoClient
    /\ \E apiKey \in APIKeys :
          /\ config' = [ctor |-> "NewLiveClient",
                        lit |-> [APIKey |-> apiKey, TestMode |-> "false", BaseURL |-> <<>>]]
          /\ client' = NewLiveClient(apiKey)
    /\ UNCHANGED <<pc, call, req, resp, result, issued, ctxDone, closed, aux>>

Init ==
    /\ config = NoConfig
    /\ client = NoClient
    /\ pc = "idle"
    /\ call = NoCall
    /\ req = NoRequest
    /\ resp = NoResponse
    /\ result = Nil
    /\ issued = 0
    /\ ctxDone = FALSE
    /\ closed = 0
    /\ calls = NoCalls
    /\ codec = NoCodec
    /\ hook = NoHook
    /\ served = NoServed

Next ==
    \/ CallNewClient
    \/ CallNewDefaultClient
    \/ CallNewTestClient
    \/ CallNewLiveClient
    \/ CreateCheckout
    \/ CreateProduct
    \/ GetProduct
    \/ ListProducts
    \/ UpdateProduct
    \/ ArchiveProduct
    \/ UnarchiveProduct
    \/ ListTransactions
    \/ ListSubscriptions
    \/ GetSubscription
    \/ CancelSubscription
    \/ ListCustomers
    \/ CallMakeRequest
    \/ DoFails
    \/ DoResponds
    \/ CancelContext
    \/ Return

Spec == Init /\ [][Next]_vars

TypeOK ==
    /\ pc \in {"idle", "inflight", "done"}
    /\ (pc = "inflight") => (req # NoRequest /\ client # NoClient)

----------------------------------------------------------------------------
(* ToJSON and FromJSON                                                     *)

\* ToJSON(v) for a model value
CallToJSON ==
    /\ \E m \in Models :
          codec' = [stage |-> "encoded", type |-> m.type, v |-> m.v,
                    json |-> ToJSON(GoType(m.type), m.v),
                    back |-> [err |-> "", val |-> VNil]]
    /\ UNCHANGED <<config, client, pc, call, req, resp, result, issued, ctxDone, closed, calls, hook, served>>

\* FromJSON of the string ToJSON returned, into a new value of the same type
CallFromJSON ==
    /\ codec # NoCodec
    /\ codec.stage = "encoded"
    /\ codec.json.err = ""
    /\ codec' = [codec EXCEPT !.stage = "decoded",
                              !.back = FromJSON(codec.json.out, GoType(codec.type))]
    /\ UNCHANGED <<config, client, pc, call, req, resp, result, issued, ctxDone, closed, calls, hook, served>>

NextJSON == CallToJSON \/ CallFromJSON

SpecJSON == Init /\ [][NextJSON]_vars

----------------------------------------------------------------------------
(* The webhook verifier.  A byte string is a sequence of atoms: one byte,   *)
(* or a run of bytes that the code only copies and hashes as a whole.      *)
(* HMAC-SHA256 is taken as collision-free: it is modelled by a function    *)
(* that gives distinct (key, message) pairs distinct digests, written as a *)
(* fixed number of lowercase hex digits as hex.EncodeToString writes them. *)

\* longest payload and longest timestamp sampled
MaxPayload == 2
MaxTimestamp == 2

\* the event types the handler's switch names
EventTypes ==
    <<"checkout.completed", "checkout.failed", "checkout.cancel",
      "subscription.trialing", "subscription.paid", "subscription.canceled",
      "refund.created">>

\* a webhook body that is an object with a string event_type
EventBody(eventType) ==
    Body("{\"event_type\":\"" \o eventType \o "\"}",
         JObj([k \in {"event_type"} |-> JStr(eventType)]))

\* request bodies the handler is sent: the seven named events, two it does
\* not name, an event_type that is a number, no event_type, null, an array
\* and text that is not JSON
HookBodies ==
    [i \in 1..Len(EventTypes) |-> EventBody(EventTypes[i])]
    \o << EventBody("invoice.created"),
          EventBody(""),
          Body("{\"event_type\":7}", JObj([k \in {"event_type"} |-> JNum(7)])),
          Body("{}", JObj(NoFields)),
          Body("null", JNull),
          Body("[]", JArr(<<>>)),
          Body("not json", JInvalid) >>

\* the atoms a message is made of, in the order that numbers them
MsgBytes == <<".", "1", "a">> \o [i \in 1..Len(HookBodies) |-> HookBodies[i].raw]
Secrets == <<"your_webhook_key", "other_key">>

HexDigits == <<"0", "1", "2", "3", "4", "5", "6", "7", "8", "9",
               "a", "b", "c", "d", "e", "f">>
UpperHexDigits == <<"0", "1", "2", "3", "4", "5", "6", "7", "8", "9",
                    "A", "B", "C", "D", "E", "F">>
DigestLen == 8

\* a byte string as a number, one-to-one
RECURSIVE MsgNumber(_)
MsgNumber(msg) ==
    IF msg = <<>> THEN 0
    ELSE Index(MsgBytes, msg[Len(msg)])
         + (Len(MsgBytes) + 1) * MsgNumber(SubSeq(msg, 1, Len(msg) - 1))

\* h := hmac.New(sha256.New, key); h.Write(msg); h.Sum(nil)
HMAC(key, msg) == MsgNumber(msg) * Len(Secrets) + (Index(Secrets, key) - 1)

\* hex.EncodeToString of a digest
RECURSIVE EncodeToString(_, _)
EncodeToString(digest, width) ==
    IF width = 0 THEN <<>>
    ELSE Append(EncodeToString(digest \div 16, width - 1), HexDigits[(digest % 16) + 1])

\* hmac.Equal: the same length and the same bytes
Equal(a, b) == a = b

\* a verifier that signs the payload alone
verifyWebhookSignatureNoTimestamp(payload, timestamp, signature, secret) ==
    LET signatureData == payload
        expectedSignature == EncodeToString(HMAC(secret, signatureData), DigestLen)
    IN Equal(expectedSignature, signature)

\* a verifier that writes the separator only after a timestamp that is not empty
verifyWebhookSignatureBareEmptyTimestamp(payload, timestamp, signature, secret) ==
    LET signatureData == IF timestamp = <<>> THEN payload
                         ELSE timestamp \o <<".">> \o payload
        expectedSignature == EncodeToString(HMAC(secret, signatureData), DigestLen)
    IN Equal(expectedSignature, signature)

\* signatureData := fmt.Sprintf("%s.%s", timestamp, string(payload))
verifyWebhookSignature(payload, timestamp, signature, secret) ==
    LET signatureData == timestamp \o <<".">> \o payload
        expectedSignature == EncodeToString(HMAC(secret, signatureData), DigestLen)
    IN Equal(expectedSignature, signature)

\* byte strings up to a length
BytesUpTo(bytes, n) == UNION {[1..k -> bytes] : k \in 0..n}
Payloads == BytesUpTo({"a", "."}, MaxPayload)
Timestamps == BytesUpTo({"1", "."}, MaxTimestamp)

\* the signature a sender holding the key computes
Sign(key, timestamp, payload) ==
    EncodeToString(HMAC(key, timestamp \o <<".">> \o payload), DigestLen)

\* the same digits in upper case
Upper(sig) == [i \in 1..Len(sig) |-> UpperHexDigits[Index(HexDigits, sig[i])]]

\* signatures a request may present for a payload and a timestamp: the one
\* made with either key, one made for another timestamp, the right one in
\* upper case or cut short, and none
Signatures(payload, timestamp) ==
    {Sign(Secrets[i], timestamp, payload) : i \in 1..Len(Secrets)}
    \cup {Sign(Secrets[1], t, payload) : t \in Timestamps}
    \cup {Upper(Sign(Secrets[1], timestamp, payload)),
          SubSeq(Sign(Secrets[1], timestamp, payload), 1, DigestLen - 1),
          <<>>}

CallVerifyWebhookSignature ==
    /\ hook = NoHook
    /\ \E payload \in Payloads, timestamp \in Timestamps, i \in 1..Len(Secrets) :
         \E signature \in Signatures(payload, timestamp) :
            hook' = [payload |-> payload, timestamp |-> timestamp,
                     signature |-> signature, secret |-> Secrets[i],
                     ok |-> verifyWebhookSignature(payload, timestamp, signature,
                                                   Secrets[i])]
    /\ UNCHANGED <<config, client, pc, call, req, resp, result, issued, ctxDone, closed, calls, codec, served>>

NextWebhook == CallVerifyWebhookSignature

SpecWebhook == Init /\ [][NextWebhook]_vars

----------------------------------------------------------------------------
(* The webhook handler of the integration example                          *)

WEBHOOK_SECRET == "your_webhook_key"

\* map[string]interface{}
TMap == [k |-> "map"]

\* the bytes of a body
Bytes(raw) == IF raw = "" THEN <<>> ELSE <<raw>>

\* what the handler wrote to the ResponseWriter and printed, and the steps
\* it went through, in order
Answer(status, body, steps, log) ==
    [status |-> status, body |-> body, steps |-> steps, log |-> log]

\* http.Error(w, msg, code): the message and a newline
HTTPError(msg, code, steps) == Answer(code, msg \o "\n", steps, "")

\* the switch on eventType: what it prints (the event map printed after the
\* label is left out)
Dispatch(eventType) ==
    CASE eventType = "checkout.completed"    -> "Checkout completed:"
      [] eventType = "checkout.failed"       -> "Checkout failed:"
      [] eventType = "checkout.cancel"       -> "Checkout cancelled:"
      [] eventType = "subscription.trialing" -> "Subscription trialing:"
      [] eventType = "subscription.paid"     -> "Subscription paid:"
      [] eventType = "subscription.canceled" -> "Subscription cancelled:"
      [] eventType = "refund.created"        -> "Refund created:"
      [] OTHER -> "Unhandled event type: " \o eventType \o "\n"

\* event["event_type"].(string): the value and whether it is there as a string
EventTypeOf(val) ==
    LET event == IF val.t = "obj" THEN val.f ELSE NoFields
        ok == "event_type" \in DOMAIN event /\ event["event_type"].t = "str"
    IN [ok |-> ok, eventType |-> IF ok THEN event["event_type"].s ELSE ""]

\* a handler whose switch answers 400 for a type it does not name
webhookHandlerRejectUnknown(r) ==
    IF r.readErr
    THEN HTTPError("Failed to read request body", 400, <<"read">>)
    ELSE IF ~verifyWebhookSignature(Bytes(r.body.raw), r.timestamp, r.signature,
                                    WEBHOOK_SECRET)
    THEN HTTPError("Invalid signature", 401, <<"read", "verify">>)
    ELSE LET u == Unmarshal(r.body, TMap)
             e == EventTypeOf(u.val)
         IN IF u.err # ""
            THEN HTTPError("Invalid JSON", 400, <<"read", "verify", "parse">>)
            ELSE IF ~e.ok
            THEN HTTPError("Missing event_type", 400, <<"read", "verify", "parse">>)
            ELSE IF e.eventType \notin Range(EventTypes)
            THEN HTTPError("Unhandled event type", 400,
                           <<"read", "verify", "parse", "dispatch">>)
            ELSE Answer(200, "{\"message\": \"Success\"}",
                        <<"read", "verify", "parse", "dispatch", "write">>,
                        Dispatch(e.eventType))

\* a handler that parses the body before it verifies the signature
webhookHandlerParseFirst(r) ==
    IF r.readErr
    THEN HTTPError("Failed to read request body", 400, <<"read">>)
    ELSE LET u == Unmarshal(r.body, TMap)
             e == EventTypeOf(u.val)
         IN IF u.err # ""
            THEN HTTPError("Invalid JSON", 400, <<"read", "parse">>)
            ELSE IF ~verifyWebhookSignature(Bytes(r.body.raw), r.timestamp, r.signature,
                                            WEBHOOK_SECRET)
            THEN HTTPError("Invalid signature", 401, <<"read", "parse", "verify">>)
            ELSE IF ~e.ok
            THEN HTTPError("Missing event_type", 400, <<"read", "parse", "verify">>)
            ELSE Answer(200, "{\"message\": \"Success\"}",
                        <<"read", "parse", "verify", "dispatch", "write">>,
                        Dispatch(e.eventType))

\* webhookHandler(w, r): io.ReadAll, the two headers, the signature check,
\* json.Unmarshal into a map, the event_type assertion, the switch, and the
\* 200 answer; each early return is an http.Error
webhookHandler(r) ==
    IF r.readErr
    THEN HTTPError("Failed to read request body", 400, <<"read">>)
    ELSE IF ~verifyWebhookSignature(Bytes(r.body.raw), r.timestamp, r.signature,
                                    WEBHOOK_SECRET)
    THEN HTTPError("Invalid signature", 401, <<"read", "verify">>)
    ELSE LET u == Unmarshal(r.body, TMap)
             e == EventTypeOf(u.val)
         IN IF u.err # ""
            THEN HTTPError("Invalid JSON", 400, <<"read", "verify", "parse">>)
            ELSE IF ~e.ok
            THEN HTTPError("Missing event_type", 400, <<"read", "verify", "parse">>)
            ELSE Answer(200, "{\"message\": \"Success\"}",
                        <<"read", "verify", "parse", "dispatch", "write">>,
                        Dispatch(e.eventType))

\* the timestamp header: absent (Header.Get gives ""), or a value
HookTimestamps == {<<>>, <<"1">>}

\* requests: a body that reads to the end or fails while being read, the
\* timestamp header, and a Bagelpay-Signature header
HookRequests ==
    UNION {{[body |-> b, readErr |-> e, timestamp |-> t, signature |-> g] :
               g \in Signatures(Bytes(b.raw), t), e \in BOOLEAN} :
           b \in Range(HookBodies) \cup {Body("", JInvalid)}, t \in HookTimestamps}

CallWebhookHandler ==
    /\ served = NoServed
    /\ \E r \in HookRequests :
          served' = [request |-> r, answer |-> webhookHandler(r)]
    /\ UNCHANGED <<config, client, pc, call, req, resp, result, issued, ctxDone, closed, calls, codec, hook>>

NextHandler == CallWebhookHandler

SpecHandler == Init /\ [][NextHandler]_vars

----------------------------------------------------------------------------
(* Concurrent calls on one client.  Each caller runs an operation in its   *)
(* own goroutine: makeRequest reads the client's fields and works on       *)
(* locals, the transport answers each request on its own, and the          *)
(* operation returns to its caller.                                        *)

\* the calls the concurrent callers make
ConcInvocations ==
    {[op |-> "GetProduct", args |-> [productID |-> id], ctx |-> "background",
      method |-> "GET",
      endpoint |-> <<"/", "api", "/", "products", "/">> \o id,
      data |-> Nil, params |-> NilParams] : id \in {<<"id_1">>, <<>>, <<"id", CTL>>}}
    \cup {[op |-> "ListProducts", args |-> [pageNum |-> pg[1], pageSize |-> pg[2]],
           ctx |-> "background", method |-> "GET",
           endpoint |-> <<"/", "api", "/", "products", "/", "list">>,
           data |-> Nil, params |-> PageParams(pg[1], pg[2])] :
             pg \in {<<0, 0>>, <<1, 12>>}}
    \cup {[op |-> "CreateProduct", args |-> [request |-> request], ctx |-> "background",
           method |-> "POST",
           endpoint |-> <<"/", "api", "/", "products", "/", "create">>,
           data |-> request, params |-> NilParams] :
             request \in RequestModels("CreateProductRequest")}

\* the answers the transport gives them
ConcResponses ==
    {r \in Responses :
        /\ ~r.readErr
        /\ r.StatusCode \in {200, 404}
        /\ r.body.raw \in {"{\"data\":{\"product_id\":\"id_1\",\"status\":\"active\"}}",
                           "Internal Server Error"}}

\* a caller's operation that also stores the URL it built in the client
ConcBeginWritesClient ==
    /\ client # NoClient
    /\ \E c \in Callers, inv \in ConcInvocations :
          LET mr == makeRequest(client, inv.ctx, inv.method, inv.endpoint, inv.data,
                                inv.params)
          IN /\ calls[c].pc = "idle"
             /\ client' = [client EXCEPT !.baseURL = client.baseURL \o inv.endpoint]
             /\ calls' = [calls EXCEPT ![c] =
                   IF mr.err # Nil
                   THEN [pc |-> "done", call |-> inv, req |-> NoRequest,
                         resp |-> NoResponse, result |-> OpReturn(mr.err, Nil)]
                   ELSE [pc |-> "inflight", call |-> inv, req |-> mr.req,
                         resp |-> NoResponse, result |-> Nil]]
    /\ UNCHANGED <<config, pc, call, req, resp, result, issued, ctxDone, closed, codec, hook, served>>

\* a caller enters an operation: makeRequest up to httpClient.Do
ConcBegin ==
    /\ client # NoClient
    /\ \E c \in Callers, inv \in ConcInvocations :
          LET mr == makeRequest(client, inv.ctx, inv.method, inv.endpoint, inv.data,
                                inv.params)
          IN /\ calls[c].pc = "idle"
             /\ client' = client
             /\ calls' = [calls EXCEPT ![c] =
                   IF mr.err # Nil
                   THEN [pc |-> "done", call |-> inv, req |-> NoRequest,
                         resp |-> NoResponse, result |-> OpReturn(mr.err, Nil)]
                   ELSE [pc |-> "inflight", call |-> inv, req |-> mr.req,
                         resp |-> NoResponse, result |-> Nil]]
    /\ UNCHANGED <<config, pc, call, req, resp, result, issued, ctxDone, closed, codec, hook, served>>

\* httpClient.Do fails for one caller
ConcDoFails ==
    /\ \E c \in Callers :
          /\ calls[c].pc = "inflight"
          /\ calls' = [calls EXCEPT ![c].pc = "done",
                          ![c].result = OpReturn(NewBagelPayError("request failed",
                                                    "net: transport error"), Nil)]
    /\ UNCHANGED <<config, client, pc, call, req, resp, result, issued, ctxDone, closed, codec, hook, served>>

\* httpClient.Do answers one caller, whose operation runs handleResponse
ConcDoResponds ==
    /\ \E c \in Callers, r \in ConcResponses :
          LET hr == handleResponse(r, ResultType(calls[c].call.op))
          IN /\ calls[c].pc = "inflight"
             /\ calls' = [calls EXCEPT ![c].pc = "done", ![c].resp = r,
                             ![c].result = OpReturn(hr.err,
                                                    ModelOf(calls[c].call.op, hr.val))]
    /\ UNCHANGED <<config, client, pc, call, req, resp, result, issued, ctxDone, closed, codec, hook, served>>

\* one caller has its result and may call again
ConcReturn ==
    /\ \E c \in Callers :
          /\ calls[c].pc = "done"
          /\ calls' = [calls EXCEPT ![c] = NoCaller]
    /\ UNCHANGED <<config, client, pc, call, req, resp, result, issued, ctxDone, closed, codec, hook, served>>

NextConcurrent ==
    \/ CallNewTestClient
    \/ CallNewLiveClient
    \/ ConcBegin
    \/ ConcDoFails
    \/ ConcDoResponds
    \/ ConcReturn

SpecConcurrent == Init /\ [][NextConcurrent]_vars

----------------------------------------------------------------------------
(* Construction with every ClientConfig field written                      *)

\* request timeouts a caller may write, in seconds (0: the field left out)
Timeouts == {0, 5, 30, 60}

\* no custom HTTP client, or one whose own Timeout is 0 (none), 5 or 30 seconds
HTTPClients == {Nil} \cup {[Timeout |-> t] : t \in {0, 5, 30}}

FullConfigLiterals ==
    [APIKey : APIKeys, TestMode : {"unset", "true", "false"}, BaseURL : BaseURLs,
     Timeout : Timeouts, HTTPClient : HTTPClients]

CallNewClientFull ==
    /\ client = NoClient
    /\ \E lit \in FullConfigLiterals :
          /\ config' = [ctor |-> "NewClient", lit |-> lit]
          /\ client' = NewClient(ClientConfig(lit))
    /\ UNCHANGED <<pc, call, req, resp, result, issued, ctxDone, closed, aux>>

NextConfig == CallNewClientFull

SpecConfig == Init /\ [][NextConfig]_vars

----------------------------------------------------------------------------
(* Properties                                                              *)

\* a call of one of the twelve operations has returned after a response
\* whose body was read to the end
Answered ==
    /\ pc = "done"
    /\ call.op \in Operations
    /\ resp # NoResponse
    /\ ~resp.readErr

\* the kind the status table assigns to a status >= 400
TableKind(s) ==
    IF s = 401 THEN "*BagelPayAuthenticationError"
    ELSE IF s = 400 THEN "*BagelPayValidationError"
    ELSE IF s = 404 THEN "*BagelPayNotFoundError"
    ELSE IF s = 429 THEN "*BagelPayRateLimitError"
    ELSE IF s >= 500 THEN "*BagelPayServerError"
    ELSE "*BagelPayAPIError"

\* C1: for every response with status >= 400, whatever its body, the error
\* returned has the kind the status table gives (401 Authentication, 400
\* Validation, 404 NotFound, 429 RateLimit, >= 500 Server, otherwise the
\* generic API error), and of the five kind predicates exactly the matching
\* one is true (none for the generic kind).
C1_StatusSelectsKind ==
    (Answered /\ resp.StatusCode >= 400) =>
        /\ result.err # Nil
        /\ result.err.type = TableKind(resp.StatusCode)
        /\ IsAuthenticationError(result.err) <=> (resp.StatusCode = 401)
        /\ IsValidationError(result.err) <=> (resp.StatusCode = 400)
        /\ IsNotFoundError(result.err) <=> (resp.StatusCode = 404)
        /\ IsRateLimitError(result.err) <=> (resp.StatusCode = 429)
        /\ IsServerError(result.err) <=> (resp.StatusCode >= 500)

C1_Witness ==
    /\ Answered
    /\ resp.StatusCode = 404
    /\ IsNotFoundError(result.err)
    /\ ~IsServerError(result.err)

\* C2: every operation returns exactly one of a non-nil model with a nil
\* error, or a nil model with a non-nil error, for every transport outcome,
\* status and body.
C2_ModelXorError ==
    (pc = "done" /\ call.op \in Operations) =>
        \/ result.model # Nil /\ result.err = Nil
        \/ result.model = Nil /\ result.err # Nil

C2_Witness ==
    /\ Answered
    /\ resp.StatusCode = 200
    /\ call.op = "GetProduct"
    /\ result.err = Nil
    /\ result.model = JObj([k \in {"product_id"} |-> JStr("id_1")])

\* C3: a client built by NewClient from a ClientConfig that sets neither
\* TestMode nor BaseURL runs in test mode (base URL https://test.bagelpay.io).
C3_UnsetTestModeIsTestMode ==
    (client # NoClient /\ config.ctor = "NewClient"
        /\ config.lit.TestMode = "unset" /\ config.lit.BaseURL = <<>>) =>
        client.baseURL = DefaultTestBaseURL

\* C4: a client never issues a request with an empty API key: the key sent
\* is the explicit non-empty key given at construction.
C4_RequestsCarryNonEmptyKey ==
    (req # NoRequest) =>
        /\ req.Header["x-api-key"] = config.lit.APIKey
        /\ req.Header["x-api-key"] # ""

\* the body does not decode into the payload {code int, message string,
\* details string}: not JSON, not an object, or a field of the wrong type
Unparsable(body) ==
    \/ body.json.t \notin {"obj", "null"}
    \/ /\ body.json.t = "obj"
       /\ \/ "code" \in DOMAIN body.json.f /\ body.json.f["code"].t \notin {"num", "null"}
          \/ "message" \in DOMAIN body.json.f /\ body.json.f["message"].t \notin {"str", "null"}
          \/ "details" \in DOMAIN body.json.f /\ body.json.f["details"].t \notin {"str", "null"}

\* C5: when the body of a status >= 400 response does not parse as the
\* error payload, the error's message is exactly "HTTP <status>: <raw body>";
\* a 500 with such a body yields a Server error with that message.
C5_FallbackMessage ==
    (Answered /\ resp.StatusCode >= 400 /\ Unparsable(resp.body)) =>
        /\ result.err # Nil
        /\ result.err.Message = "HTTP " \o ToString(resp.StatusCode) \o ": " \o resp.body.raw
        /\ (resp.StatusCode = 500) => IsServerError(result.err)

C5_Witness ==
    /\ Answered
    /\ resp.StatusCode = 500
    /\ resp.body.raw = "Internal Server Error"
    /\ IsServerError(result.err)
    /\ result.err.Message = "HTTP 500: Internal Server Error"

\* the numeric code of the payload the error was built from: the decoded
\* payload's code, or the status when the fallback payload was synthesized
PayloadCode ==
    IF Unparsable(resp.body) THEN resp.StatusCode
    ELSE IF resp.body.json.t = "obj" /\ "code" \in DOMAIN resp.body.json.f
              /\ resp.body.json.f["code"].t = "num"
         THEN resp.body.json.f["code"].v
         ELSE 0

\* C6: every API error returned for a status >= 400 response carries the
\* response's status as StatusCode, the decimal string of the payload's
\* code as ErrorCode (empty only when there is no code), and the payload.
C6_ErrorCarriesPayload ==
    (Answered /\ resp.StatusCode >= 400) =>
        /\ result.err # Nil
        /\ result.err.StatusCode = resp.StatusCode
        /\ result.err.ErrorCode = (IF PayloadCode = 0 THEN "" ELSE ToString(PayloadCode))
        /\ result.err.APIError # Nil
        /\ result.err.APIError.Code = PayloadCode

APIErrorTypes ==
    {"*BagelPayAPIError", "*BagelPayAuthenticationError", "*BagelPayValidationError",
     "*BagelPayNotFoundError", "*BagelPayRateLimitError", "*BagelPayServerError"}

\* C7: IsAPIError is true for every API error the client returns, generic
\* or one of the five specializations, and false for base errors.
C7_IsAPIErrorCoversKinds ==
    (pc = "done" /\ call.op \in Operations /\ result.err # Nil) =>
        (IsAPIError(result.err) <=> result.err.type \in APIErrorTypes)

\* the base URL the configuration selects, before any slash is stripped
ChosenBaseURL ==
    IF config.lit.BaseURL # <<>> THEN config.lit.BaseURL
    ELSE IF config.lit.TestMode = "true" THEN <<"https:", "/", "/", "test.bagelpay.io">>
    ELSE <<"https:", "/", "/", "live.bagelpay.io">>

\* C8: the base URL is the explicit override whenever it is non-empty,
\* whatever TestMode is; otherwise the test URL when TestMode is true and the
\* live URL when it is false.  NewTestClient and NewDefaultClient give the
\* test URL, NewLiveClient the live URL.
C8_BaseURLChoice ==
    (client # NoClient) =>
        /\ \/ client.baseURL = ChosenBaseURL
           \/ client.baseURL \o <<"/">> = ChosenBaseURL
        /\ config.ctor \in {"NewTestClient", "NewDefaultClient"} =>
              client.baseURL = <<"https:", "/", "/", "test.bagelpay.io">>
        /\ config.ctor = "NewLiveClient" =>
              client.baseURL = <<"https:", "/", "/", "live.bagelpay.io">>

C8_Witness ==
    /\ client # NoClient
    /\ config.ctor = "NewClient"
    /\ config.lit.TestMode = "true"
    /\ config.lit.BaseURL = CustomHost
    /\ client.baseURL = CustomHost

\* C9 as stated: the stored base URL never ends with "/"
C9_StoredURLNeverEndsWithSlash ==
    (client # NoClient) => ~HasSuffix(client.baseURL, <<"/">>)

\* C9, amended: NewClient strips exactly one trailing slash: a chosen URL
\* that ends with "/" is stored without its last slash, any other is stored
\* unchanged, so the stored URL ends with "/" only when the chosen one ended
\* with "//".  Every request URL starts with the stored base URL followed by
\* the endpoint path, and the join has no doubled slash unless the chosen
\* URL ended with "//".
C9_OneTrailingSlashStripped ==
    (client # NoClient) =>
        /\ IF HasSuffix(ChosenBaseURL, <<"/">>)
           THEN client.baseURL \o <<"/">> = ChosenBaseURL
           ELSE client.baseURL = ChosenBaseURL
        /\ HasSuffix(client.baseURL, <<"/">>) => HasSuffix(ChosenBaseURL, <<"/", "/">>)
        /\ (req # NoRequest) =>
              LET n == Len(client.baseURL)
              IN /\ Len(req.URL) >= n + Len(call.endpoint)
                 /\ SubSeq(req.URL, 1, n) = client.baseURL
                 /\ SubSeq(req.URL, n + 1, n + Len(call.endpoint)) = call.endpoint
                 /\ ~HasSuffix(ChosenBaseURL, <<"/", "/">>) =>
                       ~(req.URL[n] = "/" /\ req.URL[n + 1] = "/")

C9_Witness ==
    /\ client # NoClient
    /\ config.lit.BaseURL = CustomHost \o <<"/">>
    /\ client.baseURL = CustomHost
    /\ req # NoRequest
    /\ req.URL = CustomHost \o <<"/", "api", "/", "products", "/", "id_1">>

\* the query string of a request URL: the text after its first "?"
RawQueryOf(url) ==
    IF Index(url, "?") = 0 THEN <<>> ELSE SubSeq(url, Index(url, "?") + 1, Len(url))

\* C10: the request URL holds a query key k exactly when the parameter
\* mapping holds k with a non-empty value; an empty-valued parameter never
\* appears (not even as "k="), and each non-empty one appears exactly once
\* with its value.
C10_QueryHoldsNonEmptyParams ==
    (req # NoRequest /\ ~call.params.nil) =>
        LET m     == call.params.m
            sent  == ParseQuery(RawQueryOf(req.URL))
            given == {k \in DOMAIN m : m[k] # <<>>}
        IN /\ DOMAIN sent = given
           /\ \A k \in given : sent[k] = <<m[k]>>

C10_Witness ==
    /\ req # NoRequest
    /\ call.op = "makeRequest"
    /\ DOMAIN call.params.m = {<<"a", "&", "b">>, <<"pageNum">>, <<"pageSize">>}
    /\ call.params.m[<<"pageNum">>] = <<>>
    /\ call.params.m[<<"pageSize">>] # <<>>
    /\ call.params.m[<<"a", "&", "b">>] # <<>>
    /\ Index(req.URL, "pageNum") = 0
    /\ Index(req.URL, "pageSize") # 0

\* C11: for each list operation and all page values, the request URL holds
\* pageNum=<decimal> exactly when pageNum > 0 and pageSize=<decimal> exactly
\* when pageSize > 0; a value <= 0 leaves that parameter out, whatever the
\* other one is, and the query holds nothing else.
C11_PageParamsWhenPositive ==
    (req # NoRequest /\ call.op \in ListOperations) =>
        LET q  == ParseQuery(RawQueryOf(req.URL))
            n  == call.args.pageNum
            sz == call.args.pageSize
        IN /\ (<<"pageNum">> \in DOMAIN q) <=> (n > 0)
           /\ (<<"pageSize">> \in DOMAIN q) <=> (sz > 0)
           /\ (n > 0) => q[<<"pageNum">>] = << <<ToString(n)>> >>
           /\ (sz > 0) => q[<<"pageSize">>] = << <<ToString(sz)>> >>
           /\ DOMAIN q \subseteq {<<"pageNum">>, <<"pageSize">>}

C11_Witness ==
    /\ req # NoRequest
    /\ call.op = "ListCustomers"
    /\ call.args.pageNum = 0
    /\ call.args.pageSize = 1
    /\ RawQueryOf(req.URL) = <<"pageSize", "=", "1">>

\* C13: every request an operation issues carries x-api-key equal to the
\* API key given at construction, Content-Type application/json and the
\* fixed User-Agent DefaultUserAgent, which names the SDK and its version;
\* no other header (such as Authorization) is set.
C13_HeadersNameKeyAndVersion ==
    (req # NoRequest) =>
        /\ DOMAIN req.Header = {"Content-Type", "User-Agent", "x-api-key"}
        /\ req.Header["x-api-key"] = config.lit.APIKey
        /\ req.Header["Content-Type"] = "application/json"
        /\ req.Header["User-Agent"] = DefaultUserAgent
        /\ req.Header["User-Agent"] = "BagelPay-Go-SDK/" \o Version

\* C14: a call issues at most one HTTP request: one when the request was
\* built, none when URL parsing, marshaling or request creation failed; a
\* call that ended after a transport failure or a status >= 400 has issued
\* exactly that one request.
C14_AtMostOneRequest ==
    /\ (pc = "idle") => (issued = 0)
    /\ (pc = "inflight") => (issued = 1 /\ req # NoRequest)
    /\ (pc = "done") => (issued = IF req = NoRequest THEN 0 ELSE 1)

C14_Witness ==
    /\ pc = "done"
    /\ call.op = "CreateProduct"
    /\ resp # NoResponse
    /\ resp.StatusCode = 503
    /\ result.err # Nil
    /\ issued = 1

\* C15: when the context the caller passed is done before the call has its
\* response (canceled or past its deadline, while the request is in flight
\* or before it is sent), the operation returns a nil model and a non-nil
\* error, never a response model.
C15_DoneContextFailsCall ==
    (pc = "done" /\ call.op \in Operations /\ Done(call.ctx)) =>
        /\ result.model = Nil
        /\ result.err # Nil

C15_Witness ==
    /\ pc = "done"
    /\ call.op = "GetProduct"
    /\ call.ctx = "cancelable"
    /\ ctxDone
    /\ req # NoRequest
    /\ result.model = Nil
    /\ result.err # Nil

\* the call ended without a request: the URL did not parse, the model did
\* not marshal, or the request could not be created
BuildFailed == req = NoRequest

\* the request went out and httpClient.Do returned an error
TransportFailed == req # NoRequest /\ resp = NoResponse

\* the body of the response could not be read to its end
ReadFailed == resp # NoResponse /\ resp.readErr

\* the body of a status < 400 response does not deserialize into the model
DecodeFailed ==
    /\ resp # NoResponse
    /\ ~resp.readErr
    /\ resp.StatusCode < 400
    /\ \/ resp.body.json.t = "invalid"
       \/ ~Decode(ResultType(call.op), resp.body.json).ok

\* C17: every failure that is not a status >= 400 (malformed URL, marshal
\* failure, request build failure, transport failure, unreadable body,
\* undecodable body of a status < 400 response) is returned as a base
\* *BagelPayError whose cause is the original non-nil failure; IsAPIError and
\* the five kind predicates are false for it; and every other error a call
\* returns comes from a status >= 400.
C17_OtherFailuresAreBaseErrors ==
    (pc = "done" /\ call.op \in Operations) =>
        LET other == BuildFailed \/ TransportFailed \/ ReadFailed \/ DecodeFailed
        IN /\ other =>
                /\ result.err # Nil
                /\ result.model = Nil
                /\ result.err.type = "*BagelPayError"
                /\ result.err.Cause # ""
                /\ ~IsAPIError(result.err)
                /\ ~IsAuthenticationError(result.err)
                /\ ~IsValidationError(result.err)
                /\ ~IsNotFoundError(result.err)
                /\ ~IsRateLimitError(result.err)
                /\ ~IsServerError(result.err)
           /\ (result.err # Nil /\ ~other) => resp.StatusCode >= 400

C17_Witness ==
    /\ pc = "done"
    /\ call.op = "ListProducts"
    /\ DecodeFailed
    /\ resp.StatusCode = 200
    /\ resp.body.raw = "[]"
    /\ result.err.Message = "failed to parse response"
    /\ result.err.Cause = "json.UnmarshalTypeError"

\* C12: a GET request never carries a body, whatever data was passed to
\* makeRequest; a request carries a body exactly when its method is POST,
\* PUT or PATCH and a request model was supplied, and that body is the JSON
\* serialization of the model.
C12_BodyOnlyForBodyMethods ==
    (req # NoRequest) =>
        /\ (req.Method = "GET") => (req.Body = NoBody)
        /\ (req.Body # NoBody) <=>
              (req.Method \in {"POST", "PUT", "PATCH"} /\ call.data # Nil)
        /\ (req.Body # NoBody) =>
              /\ ToJSON(GoType(call.data.type), call.data.v).err = ""
              /\ req.Body = ToJSON(GoType(call.data.type), call.data.v).out

C12_Witness ==
    /\ req # NoRequest
    /\ call.op = "CreateProduct"
    /\ req.Method = "POST"
    /\ req.Body # NoBody
    /\ req.Body.raw = "{\"name\":\"Pro\",\"description\":\"\",\"price\":9.99,\"currency\":\"\",\"billing_type\":\"\",\"tax_inclusive\":false,\"tax_category\":\"\",\"recurring_interval\":\"\",\"trial_days\":0}"

\* C20: for every model value v, FromJSON(ToJSON(v)) succeeds and yields a
\* value equal to v: present fields keep their value, present-but-empty ones
\* included (a pointer to "", 0 or false, an empty non-nil metadata map), and
\* absent optional fields stay absent.
C20_RoundTripIsIdentity ==
    (codec # NoCodec /\ codec.stage = "decoded") =>
        /\ codec.back.err = ""
        /\ codec.back.val = codec.v

\* a byte string with exactly one byte replaced by another byte
AlterOne(str, bytes) ==
    UNION {{[str EXCEPT ![i] = b] : b \in bytes \ {str[i]}} : i \in 1..Len(str)}

\* C18: verifyWebhookSignature returns true when the signature is the
\* lowercase-hex HMAC-SHA256, keyed by the secret, of "<timestamp>.<payload>";
\* for an accepted tuple, altering any one byte of the payload, of the
\* timestamp or of the signature makes it return false; and it returns a
\* boolean for every input.
C18_VerifierAcceptsOnlyTheSignedTuple ==
    (hook # NoHook) =>
        /\ hook.ok \in BOOLEAN
        /\ (hook.signature = Sign(hook.secret, hook.timestamp, hook.payload)) => hook.ok
        /\ hook.ok =>
             /\ \A p \in AlterOne(hook.payload, Range(MsgBytes)) :
                   ~verifyWebhookSignature(p, hook.timestamp, hook.signature, hook.secret)
             /\ \A t \in AlterOne(hook.timestamp, Range(MsgBytes)) :
                   ~verifyWebhookSignature(hook.payload, t, hook.signature, hook.secret)
             /\ \A g \in AlterOne(hook.signature,
                                  Range(HexDigits) \cup Range(UpperHexDigits)) :
                   ~verifyWebhookSignature(hook.payload, hook.timestamp, g, hook.secret)

C18_Witness ==
    /\ hook # NoHook
    /\ hook.ok
    /\ hook.payload = <<"a", ".">>
    /\ hook.timestamp = <<"1", ".">>
    /\ hook.secret = "your_webhook_key"

\* what a call returns when it runs alone on the client NewClient built:
\* its request, and its result given the answer it got
Alone(inv, response, finished) ==
    LET mr == makeRequest(NewClient(ClientConfig(config.lit)), inv.ctx, inv.method,
                          inv.endpoint, inv.data, inv.params)
        hr == handleResponse(response, ResultType(inv.op))
    IN [req    |-> IF mr.err # Nil THEN NoRequest ELSE mr.req,
        result |-> IF mr.err # Nil THEN OpReturn(mr.err, Nil)
                   ELSE IF ~finished THEN Nil
                   ELSE IF response = NoResponse
                   THEN OpReturn(NewBagelPayError("request failed",
                                                  "net: transport error"), Nil)
                   ELSE OpReturn(hr.err, ModelOf(inv.op, hr.val))]

\* C16: once NewClient has returned, the client's fields are never written;
\* and in every interleaving of concurrent calls on one client, each call's
\* request (URL, headers, body) and its result are those the call has when
\* it runs alone with the same arguments and the same response.
C16_CallsDoNotInterfere ==
    (client # NoClient) =>
        /\ client = NewClient(ClientConfig(config.lit))
        /\ \A c \in Callers :
              (calls[c].pc # "idle") =>
                 LET alone == Alone(calls[c].call, calls[c].resp, calls[c].pc = "done")
                 IN /\ calls[c].req = alone.req
                    /\ calls[c].result = alone.result

C16_Witness ==
    /\ calls[1].pc = "done"
    /\ calls[1].call.op = "GetProduct"
    /\ calls[1].resp # NoResponse
    /\ calls[1].resp.StatusCode = 404
    /\ calls[2].pc = "inflight"
    /\ calls[2].call.op = "CreateProduct"
    /\ calls[2].req.Body # NoBody

\* the interface table: method and path of each operation
TableMethod(op) ==
    IF op \in {"GetProduct", "ListProducts", "ListTransactions", "ListSubscriptions",
               "GetSubscription", "ListCustomers"}
    THEN "GET" ELSE "POST"

TablePath(op, args) ==
    CASE op = "CreateCheckout" -> <<"/", "api", "/", "payments", "/", "checkouts">>
      [] op = "CreateProduct" -> <<"/", "api", "/", "products", "/", "create">>
      [] op = "GetProduct" -> <<"/", "api", "/", "products", "/">> \o args.id
      [] op = "ListProducts" -> <<"/", "api", "/", "products", "/", "list">>
      [] op = "UpdateProduct" -> <<"/", "api", "/", "products", "/", "update">>
      [] op = "ArchiveProduct" ->
            <<"/", "api", "/", "products", "/">> \o args.id \o <<"/", "archive">>
      [] op = "UnarchiveProduct" ->
            <<"/", "api", "/", "products", "/">> \o args.id \o <<"/", "unarchive">>
      [] op = "ListTransactions" -> <<"/", "api", "/", "transactions", "/", "list">>
      [] op = "ListSubscriptions" -> <<"/", "api", "/", "subscriptions", "/", "list">>
      [] op = "GetSubscription" -> <<"/", "api", "/", "subscriptions", "/">> \o args.id
      [] op = "CancelSubscription" ->
            <<"/", "api", "/", "subscriptions", "/">> \o args.id \o <<"/", "cancel">>
      [] op = "ListCustomers" -> <<"/", "api", "/", "customers", "/", "list">>

\* the record type of each singular operation and the item type of each list
TableRecord(op) ==
    CASE op = "CreateCheckout" -> CheckoutResponseType
      [] op \in {"GetSubscription", "CancelSubscription", "ListSubscriptions"} ->
            SubscriptionType
      [] op = "ListTransactions" -> TransactionType
      [] op = "ListCustomers" -> CustomerDataType
      [] OTHER -> ProductType

\* C21: each operation issues its request with the method and path of the
\* interface table (the ID standing where {id} is); only GET and POST are
\* used; a singular operation returns the record under the response's data
\* key, a list operation the {total, items, code, msg} page itself.
C21_MethodPathAndEnvelope ==
    (call # NoCall /\ call.op \in Operations) =>
        /\ (req # NoRequest) =>
              LET full == client.baseURL \o TablePath(call.op, call.args)
              IN /\ req.Method = TableMethod(call.op)
                 /\ req.Method \in {"GET", "POST"}
                 /\ Len(req.URL) >= Len(full)
                 /\ SubSeq(req.URL, 1, Len(full)) = full
                 /\ (Len(req.URL) > Len(full)) => req.URL[Len(full) + 1] = "?"
        /\ (Answered /\ result.err = Nil /\ resp.body.json.t = "obj") =>
              IF call.op \in ListOperations
              THEN /\ result.model = Decode(ListResponse(TableRecord(call.op)),
                                            resp.body.json).val
                   /\ DOMAIN result.model.f \subseteq {"total", "items", "code", "msg"}
              ELSE ("data" \in DOMAIN resp.body.json.f) =>
                      result.model = Decode(TableRecord(call.op),
                                            resp.body.json.f["data"]).val

C21_Witness ==
    /\ Answered
    /\ call.op = "CancelSubscription"
    /\ call.args.id = <<"id_1">>
    /\ req.Method = "POST"
    /\ req.URL = client.baseURL
                 \o <<"/", "api", "/", "subscriptions", "/", "id_1", "/", "cancel">>
    /\ resp.StatusCode = 200
    /\ result.model = JObj([k \in {"product_id", "status"} |->
                              IF k = "product_id" THEN JStr("id_1") ELSE JStr("active")])

\* C22: handleResponse reads the body to its end before it looks at the
\* status: when the read fails the result is the base error "failed to read
\* response body" for every status, status >= 400 included, and never a
\* classified API error.
C22_ReadFailureBeforeStatus ==
    (pc = "done" /\ call.op \in Operations /\ resp # NoResponse /\ resp.readErr) =>
        /\ result.model = Nil
        /\ result.err # Nil
        /\ result.err.type = "*BagelPayError"
        /\ result.err.Message = "failed to read response body"
        /\ ~IsAPIError(result.err)
        /\ ~IsAuthenticationError(result.err)
        /\ ~IsValidationError(result.err)
        /\ ~IsNotFoundError(result.err)
        /\ ~IsRateLimitError(result.err)
        /\ ~IsServerError(result.err)

C22_Witness ==
    /\ pc = "done"
    /\ call.op = "ListTransactions"
    /\ resp # NoResponse
    /\ resp.readErr
    /\ resp.StatusCode = 401
    /\ result.err.Message = "failed to read response body"

\* the operations that put a caller's ID into the path
IDOperations ==
    {"GetProduct", "ArchiveProduct", "UnarchiveProduct", "GetSubscription",
     "CancelSubscription"}

\* the path template around the ID
TemplatePrefix(op) ==
    IF op \in {"GetSubscription", "CancelSubscription"}
    THEN <<"/", "api", "/", "subscriptions", "/">>
    ELSE <<"/", "api", "/", "products", "/">>

TemplateSuffix(op) ==
    CASE op = "ArchiveProduct" -> <<"/", "archive">>
      [] op = "UnarchiveProduct" -> <<"/", "unarchive">>
      [] op = "CancelSubscription" -> <<"/", "cancel">>
      [] OTHER -> <<>>

\* how many times an atom occurs in a text
RECURSIVE Count(_, _)
Count(str, a) ==
    IF str = <<>> THEN 0
    ELSE (IF Head(str) = a THEN 1 ELSE 0) + Count(Tail(str), a)

\* C25: the five operations that take an ID put it into the path verbatim,
\* and the result is parsed as a URL: a "?" in the ID starts the query, a "#"
\* cuts the path and drops what follows, a "/" adds a path segment, and the
\* ID "list" makes GetProduct address the list endpoint.
C25_IDSplicedVerbatim ==
    (req # NoRequest /\ call.op \in IDOperations) =>
        LET id   == call.args.id
            pre  == client.baseURL \o TemplatePrefix(call.op)
            suf  == TemplateSuffix(call.op)
            u    == urlParse(req.URL)
            q    == Index(id, "?")
            h    == Index(id, "#")
        IN /\ req.URL = pre \o id \o suf
           /\ (q = 0 /\ h = 0) =>
                 /\ u.Path = pre \o id \o suf
                 /\ u.RawQuery = <<>>
                 /\ Count(u.Path, "/") = Count(pre \o suf, "/") + Count(id, "/")
           /\ (q # 0 /\ h = 0) =>
                 /\ u.Path = pre \o SubSeq(id, 1, q - 1)
                 /\ u.RawQuery = SubSeq(id, q + 1, Len(id)) \o suf
           /\ (h # 0 /\ q = 0) =>
                 /\ u.Path = pre \o SubSeq(id, 1, h - 1)
                 /\ u.Fragment = SubSeq(id, h + 1, Len(id)) \o suf
           /\ (call.op = "GetProduct" /\ id = <<"list">>) =>
                 /\ req.Method = "GET"
                 /\ req.URL = client.baseURL \o <<"/", "api", "/", "products", "/", "list">>
           /\ (id = <<"x", "?", "pageNum", "=", "1">>) =>
                 <<"pageNum">> \in DOMAIN ParseQuery(u.RawQuery)

C25_Witness ==
    /\ req # NoRequest
    /\ call.op = "ArchiveProduct"
    /\ call.args.id = <<"x", "?", "pageNum", "=", "1">>
    /\ urlParse(req.URL).Path = client.baseURL \o <<"/", "api", "/", "products", "/", "x">>
    /\ urlParse(req.URL).RawQuery = <<"pageNum", "=", "1", "/", "archive">>

\* C27: a status < 400 is success whatever the body says: for a singular
\* operation a JSON object with no data key (one carrying an error code and
\* message included) yields a non-nil record with every field absent and a
\* nil error; for a list operation the page's code and msg are handed back
\* as they came, and no error is made of them.
C27_SuccessStatusIgnoresBody ==
    (Answered /\ resp.StatusCode < 400 /\ resp.body.json.t = "obj") =>
        IF call.op \in ListOperations
        THEN Decode(ListResponse(TableRecord(call.op)), resp.body.json).ok =>
                /\ result.err = Nil
                /\ result.model # Nil
                /\ \A k \in {"code", "msg"} \cap DOMAIN resp.body.json.f :
                      result.model.f[k] = resp.body.json.f[k]
        ELSE ("data" \notin DOMAIN resp.body.json.f) =>
                /\ result.err = Nil
                /\ result.model # Nil
                /\ result.model = JObj(NoFields)

C27_Witness ==
    /\ Answered
    /\ call.op = "GetProduct"
    /\ resp.StatusCode = 200
    /\ resp.body.raw = "{\"code\":401,\"message\":\"invalid api key\"}"
    /\ result.err = Nil
    /\ result.model = JObj(NoFields)

\* C28: when the body of a status >= 400 response is a JSON object that
\* decodes into the error payload but has no message, the fallback is not
\* used: the error has the kind the status selects and an empty Message.
\* The fallback message appears only when decoding the body fails.
C28_NoMessageMeansEmptyMessage ==
    (Answered /\ resp.StatusCode >= 400) =>
        LET fallback == "HTTP " \o ToString(resp.StatusCode) \o ": " \o resp.body.raw
        IN /\ (resp.body.json.t = "obj" /\ ~Unparsable(resp.body)
                  /\ "message" \notin DOMAIN resp.body.json.f) =>
                 /\ result.err # Nil
                 /\ result.err.type = TableKind(resp.StatusCode)
                 /\ result.err.Message = ""
           /\ (result.err.Message = fallback) => Unparsable(resp.body)

C28_Witness ==
    /\ Answered
    /\ resp.StatusCode = 404
    /\ resp.body.raw = "{}"
    /\ IsNotFoundError(result.err)
    /\ result.err.Message = ""

----------------------------------------------------------------------------
\* C30: every response an operation obtains has its body closed exactly
\* once by the time the operation has returned, whichever way
\* handleResponse returns (read failure, status >= 400, deserialization
\* failure, success); no response is held while the request is in flight,
\* and an operation whose makeRequest failed holds no response at all.
C30_BodyClosedExactlyOnce ==
    (call # NoCall /\ call.op \in Operations) =>
        /\ (pc = "done" /\ resp # NoResponse) => closed = 1
        /\ (pc = "done" /\ resp = NoResponse) => (closed = 0 /\ result.err # Nil)
        /\ (pc = "inflight") => (resp = NoResponse /\ closed = 0)

\* an operation returned a typed API error for a status >= 400 response
\* whose body it had read, and the body is closed
C30_Witness ==
    /\ pc = "done"
    /\ call # NoCall
    /\ call.op \in Operations
    /\ resp # NoResponse
    /\ ~resp.readErr
    /\ resp.StatusCode >= 400
    /\ result.err # Nil
    /\ closed = 1

----------------------------------------------------------------------------
\* C23: the HTTP client of a client NewClient built has a request timeout
\* equal to ClientConfig.Timeout, or 30 seconds when Timeout is zero,
\* whether or not the caller supplied an HTTPClient.
C23_TimeoutIsConfigured ==
    (client # NoClient) =>
        LET cfg == ClientConfig(config.lit)
        IN client.httpClient.Timeout =
               (IF cfg.Timeout = 0 THEN 30 ELSE cfg.Timeout)

----------------------------------------------------------------------------
\* the request verifies under the handler's secret
Verifies(r) ==
    verifyWebhookSignature(Bytes(r.body.raw), r.timestamp, r.signature, WEBHOOK_SECRET)

\* the body is JSON holding an object with a string event_type
HasEventType(r) ==
    /\ r.body.json.t = "obj"
    /\ "event_type" \in DOMAIN r.body.json.f
    /\ r.body.json.f["event_type"].t = "str"

\* C24: for a request whose signature verifies and whose body is JSON with
\* a string event_type, the handler answers 200 success whatever the
\* event_type is: the seven types it names and any other alike; a type it
\* does not name is only logged.
C24_EveryEventTypeSucceeds ==
    (served # NoServed /\ ~served.request.readErr
       /\ Verifies(served.request) /\ HasEventType(served.request)) =>
        LET eventType == served.request.body.json.f["event_type"].s
        IN /\ served.answer.status = 200
           /\ served.answer.body = "{\"message\": \"Success\"}"
           /\ (eventType \notin Range(EventTypes)) =>
                  served.answer.log = "Unhandled event type: " \o eventType \o "\n"
           /\ (eventType \in Range(EventTypes)) =>
                  served.answer.log \in {Dispatch(EventTypes[i]) : i \in 1..Len(EventTypes)}

\* a verified event of a type the switch does not name was answered 200
C24_Witness ==
    /\ served # NoServed
    /\ ~served.request.readErr
    /\ Verifies(served.request)
    /\ served.request.body = EventBody("invoice.created")
    /\ served.answer.status = 200

\* C26: the verifier depends on (timestamp, payload) only through
\* timestamp + "." + payload: every other pair with the same concatenation
\* gets the same verdict under the same signature and secret, so an accepted
\* signature does not bind where the timestamp ends and the body begins.
C26_OnlyTheConcatenationIsSigned ==
    (hook # NoHook) =>
        \A t \in Timestamps, p \in Payloads :
            (t \o <<".">> \o p = hook.timestamp \o <<".">> \o hook.payload) =>
                verifyWebhookSignature(p, t, hook.signature, hook.secret) = hook.ok

\* a signature accepted for timestamp "1" and payload ".a" is accepted for
\* timestamp "1." and payload "a" as well
C26_Witness ==
    /\ hook # NoHook
    /\ hook.ok
    /\ hook.timestamp = <<"1">>
    /\ hook.payload = <<".", "a">>
    /\ verifyWebhookSignature(<<"a">>, <<"1", ".">>, hook.signature, hook.secret)

\* step a comes before step b in the steps taken
Precedes(steps, a, b) ==
    \E i, j \in 1..Len(steps) : i < j /\ steps[i] = a /\ steps[j] = b

\* C29: the handler verifies the signature before it parses or dispatches:
\* a request whose signature does not verify is answered 401 without the
\* body being parsed or the dispatch reached; the dispatch is reached only
\* after verification succeeded, the body parsed as JSON and event_type was
\* a string (400 otherwise); and 200 is written only after the dispatch.
C29_VerifyBeforeParseAndDispatch ==
    (served # NoServed /\ ~served.request.readErr) =>
        LET r == served.request
            a == served.answer
            taken == Range(a.steps)
        IN /\ ~Verifies(r) =>
                 (a.status = 401 /\ "parse" \notin taken /\ "dispatch" \notin taken)
           /\ ("parse" \in taken) => Precedes(a.steps, "verify", "parse")
           /\ ("dispatch" \in taken) =>
                 /\ Verifies(r)
                 /\ r.body.json.t # "invalid"
                 /\ HasEventType(r)
                 /\ Precedes(a.steps, "verify", "parse")
                 /\ Precedes(a.steps, "parse", "dispatch")
           /\ (Verifies(r) /\ ~(Unmarshal(r.body, TMap).err = "" /\ HasEventType(r))) =>
                 (a.status = 400 /\ "dispatch" \notin taken)
           /\ (a.status = 200) =>
                 (a.steps[Len(a.steps)] = "write" /\ Precedes(a.steps, "dispatch", "write"))
           /\ ("write" \in taken) => a.status = 200

\* a request with a body that is not JSON and a signature that does not
\* verify was answered 401
C29_Witness ==
    /\ served # NoServed
    /\ ~served.request.readErr
    /\ ~Verifies(served.request)
    /\ served.request.body.json.t = "invalid"
    /\ served.answer.status = 401
    /\ served.answer.steps = <<"read", "verify">>

================================================================
